---- MODULE Spec2Model ----
(***************************************************************************)
(* State-machine model of spectrogram_lines.cpp: the playback clock shared *)
(* by the audio callback and the render loop, the transport controls, the  *)
(* sample-buffer loads, and the history ring fed by the analysis step.     *)
(*                                                                         *)
(* Two execution contexts are modelled.  The render context is the main    *)
(* loop: each key/button handler is one action, and a handler that reads   *)
(* the clock, then blocks or stores, is split at that point (rpc).  The    *)
(* audio context is PortAudio's callback: entry (the loads), one step per  *)
(* output frame, exit (the store).                                         *)
(***************************************************************************)
EXTENDS Integers, Sequences, FiniteSets, TLC

(* ------------------------------ bounds --------------------------------- *)
\* frames the audio subsystem may ask for in one callback (framesPerBuffer)
MaxFrames == 2
\* length, in frames, of the longer of the two decodable files
LongLen == 3
\* resolution of the progress slider: progress = t / ScrubTicks
ScrubTicks == 4
\* analysis cycles (pushes) a run may perform
MaxPushes == 12
\* analysis cycles a run of the transport specification may perform
MaxTransportFrames == 1
\* bars per display line (the program uses 1000)
NUM_BARS == 2
\* the smallest transform size (the program uses 512); the six sizes on offer
\* are 1, 2, 4, 8, 16 and 32 times it
FFT_UNIT == 4
\* resolution of a fractional bin position of the Frequency Map
BinTicks == 100
\* the arguments wrapIndex is called with: |idx| <= MaxWrapIdx,
\* size and k <= MaxWrapSize
MaxWrapIdx == 6
MaxWrapSize == 4
\* analysis cycles a run of the analyzer specification may perform
MaxAnalyzerCycles == 1
\* how far outside [0.0, 1.0], in 1 / COLOR_UNIT, a colormap is asked for a color
MaxOvershoot == 2
\* the widest texture whose column loop is studied on its own
MaxRasterW == 6
\* the most bars a Frequency Map built on its own has
MaxMapBars == 3
\* resolution of a magnitude handed to the line builder
MagUnit == 4
\* width, in pixels, of the heat-map texture (the viewport's width)
TexW == 2

(* ------------------------- program constants --------------------------- *)
FRAMES_PER_BUFFER == 256
MAX_HISTORY_LINES == 560
MIN_HISTORY_LINES == 10
DEFAULT_HISTORY_LINES == 140
LOCKED_HISTORY_LINES == 560
\* 4096 = 8 * 512 and 16384 = 32 * 512
DEFAULT_FFT_SIZE == 8 * FFT_UNIT
LOCKED_FFT_SIZE == 32 * FFT_UNIT
MIN_FREQ == 20
MAG_GAIN == 140
COLOR_LUT_SIZE == 1024
\* the user's latency adjustment; nothing in the program assigns it
gLatencyAdjust == 0
\* enum ColormapType: 16 colormaps, numbered from 0
COLORMAP_VIRIDIS == 0
COLORMAP_INFERNO == 2
COLORMAP_JET == 6
COLORMAP_RAINBOW == 9
COLORMAP_COUNT == 16
\* positions and color channels are floats in [0, 1]; the model counts them
\* in thousandths, the resolution the tables are written in
COLOR_UNIT == 1000
\* volume is a float in [0, 1]; the model counts it in percent
VOLUME_FULL == 100
\* the arrow keys seek by 5 seconds
SEEK_SECONDS == 5
\* (i + 1) * 0.1f as a float is PercentNum(i) / PERCENT_DEN exactly
PERCENT_DEN == 134217728

Max(a, b) == IF a >= b THEN a ELSE b
Min(a, b) == IF a <= b THEN a ELSE b

\* a slot of the output buffer the callback has not written
Unwritten == -1

(* --------------------------- sample source ----------------------------- *)
\* What libsndfile yields for each path: the interleaved frames, or a failure.
\* "missing.wav" cannot be opened; "empty.wav" opens and yields no frames;
\* "c.wav" is one frame longer than the smallest transform.  The sample rates
\* are as small as the transform sizes are, so that the Frequency Map of one
\* rate differs from that of another as it does in the program.
Paths == {"a.wav", "b.flac", "empty.wav", "missing.wav"}

SndFile(path) ==
    CASE path = "a.wav" ->
           [opens |-> TRUE, samplerate |-> 200, channels |-> 1,
            frames |-> [k \in 1..LongLen |-> <<2 * k>>]]
      [] path = "b.flac" ->
           [opens |-> TRUE, samplerate |-> 400, channels |-> 2,
            frames |-> [k \in 1..(LongLen - 1) |-> <<10 * k, 10 * k + 2>>]]
      [] path = "empty.wav" ->
           [opens |-> TRUE, samplerate |-> 1000, channels |-> 2, frames |-> << >>]
      [] path = "c.wav" ->
           [opens |-> TRUE, samplerate |-> 200, channels |-> 1,
            frames |-> [k \in 1..(FFT_UNIT + 1) |-> <<3 * k>>]]
      [] OTHER ->
           [opens |-> FALSE, samplerate |-> 0, channels |-> 0, frames |-> << >>]

RECURSIVE SumSeq(_)
SumSeq(s) == IF s = << >> THEN 0 ELSE Head(s) + SumSeq(Tail(s))

\* WAVFile::load: the fields after a load of path into w, and its return value
WAVFileLoad(w, path) ==
    LET f == SndFile(path) IN
    IF ~f.opens THEN [wav |-> w, ok |-> FALSE]
    ELSE LET hdr == [w EXCEPT !.sampleRate = f.samplerate,
                              !.sourceChannels = f.channels]
         IN IF Len(f.frames) <= 0 THEN [wav |-> hdr, ok |-> FALSE]
            ELSE [wav |-> [hdr EXCEPT !.audioData =
                             [i \in 1..Len(f.frames) |->
                                SumSeq(f.frames[i]) \div f.channels]],
                  ok |-> TRUE]

(* ------------------------------ state ---------------------------------- *)
VARIABLES
    wavFile,              \* [audioData, sampleRate, sourceChannels]
    playbackPosition,     \* std::atomic<uint64_t>
    isPaused,             \* std::atomic<bool>
    isPlaying,
    audioStream,          \* [open, active, channels]; open = FALSE is nullptr
    gOutputChannels,
    gLatencySamplesBase,
    loopAudio,
    volume, isMuted, volumeBeforeMute,
    rpc, rlocal,          \* where the render context stands inside a handler
    cb,                   \* the locals of the callback invocation in flight
    out,                  \* the output buffer handed to that invocation
    cbRet,                \* what the last invocation returned to PortAudio
    HISTORY_LINES, saved3D_HISTORY_LINES,
    FFT_SIZE, saved3D_FFT_SIZE,
    useTraditionalView,
    lineWidth,            \* in tenths: 10 is 1.0f
    yScale, yOffset,      \* in hundredths: 120 is 1.20f
    showGrid, autoRotate,
    saved3D_lineWidth, saved3D_yScale, saved3D_yOffset,
    saved3D_showGrid, saved3D_autoRotate,
    currentLine, lineHistory, historyFillCount,
    pushSeq,              \* number of analysis cycles run so far
    depthSince,           \* pushSeq when the depth last changed or the ring was cleared
    fftInput,             \* double*: [size, data, fill]; size 0 is nullptr
    fftOutput,            \* fftw_complex*: the buffer's length; 0 is nullptr
    fftPlan,              \* fftw_plan: the size it was planned for; 0 is nullptr
    magnitudes,
    gBarBinF,             \* the Frequency Map, in 1 / BinTicks of a bin
    useCustomLineColor, useColormap, currentColormap,
    saved3D_useCustomLineColor, saved3D_useColormap, saved3D_currentColormap,
    colorLUTDirty,
    colorLUT,             \* [size, colormap]: the table computed from that colormap
    textureData,
    wrapCall,             \* a call of wrapIndex: its arguments and what it returned
    colorCall,            \* a call of getCurrentColormapColor, likewise
    rasterCall,           \* a run of the raster's column loop, likewise
    mapCall,              \* a call of buildFrequencyMapping, likewise
    lineCall              \* a call of buildCurrentLine, likewise

transportVars == <<playbackPosition, isPaused, isPlaying, audioStream,
                   gOutputChannels, gLatencySamplesBase>>
volumeVars == <<volume, isMuted, volumeBeforeMute>>
renderVars == <<rpc, rlocal>>
audioVars == <<cb, out, cbRet>>
configVars == <<HISTORY_LINES, saved3D_HISTORY_LINES, FFT_SIZE, saved3D_FFT_SIZE,
                useTraditionalView>>
historyVars == <<currentLine, lineHistory, historyFillCount, pushSeq, depthSince>>
analyzerVars == <<fftInput, fftOutput, fftPlan, magnitudes, gBarBinF>>
colorVars == <<useCustomLineColor, useColormap, currentColormap,
               saved3D_useCustomLineColor, saved3D_useColormap,
               saved3D_currentColormap, colorLUTDirty, colorLUT, textureData>>
\* the settings of the 3D view that the heat map locks
viewVars == <<lineWidth, yScale, yOffset, showGrid, autoRotate,
              saved3D_lineWidth, saved3D_yScale, saved3D_yOffset,
              saved3D_showGrid, saved3D_autoRotate>>
\* the calls of the pure functions studied on their own
callVars == <<wrapCall, colorCall, rasterCall, mapCall, lineCall>>
vars == <<wavFile, transportVars, loopAudio, volumeVars, renderVars,
          audioVars, configVars, historyVars, analyzerVars, colorVars,
          viewVars, callVars>>

\* lineHistory is a vector of MAX_HISTORY_LINES * NUM_BARS floats, allocated
\* once and zero-filled.  The variable holds it without its trailing zeros:
\* At(h, i) is element i (from 1) of the vector, Compact(s) the stored form
\* of a vector s.
At(h, i) == IF i <= Len(h) THEN h[i] ELSE 0

Compact(s) ==
    LET nz == {i \in DOMAIN s : s[i] # 0}
        last == IF nz = {} THEN 0 ELSE CHOOSE i \in nz : \A j \in nz : j <= i
    IN SubSeq(s, 1, last)

NullStream == [open |-> FALSE, active |-> FALSE, channels |-> 0]
NoLocals == [currentPos |-> 0, wasPlaying |-> FALSE, wasPaused |-> FALSE, path |-> ""]
IdleCallback == [pc |-> "idle", paused |-> FALSE, entry |-> 0, pos |-> 0, N |-> 0,
                 outCh |-> 1, frames |-> 0, i |-> 0, src |-> << >>,
                 gain |-> << >>, loopSeen |-> {}]

BufferLen == Len(wavFile.audioData)

\* getNumFrequencies() when FFT_SIZE is n
NumFrequencies(n) == n \div 2

\* an element of a buffer that nothing has written yet
Uninitialized == <<Unwritten, Unwritten>>

\* A buffer of doubles is kept as its length, the elements up to the last
\* one that differs from those after it, and the element the rest holds.
\* fftw_malloc(sizeof(double) * n): n elements, none written
Malloc(n) == [size |-> n, data |-> << >>, fill |-> Uninitialized]

NullBuffer == Malloc(0)

\* element i (from 1) of buffer b
BufAt(b, i) == IF i <= Len(b.data) THEN b.data[i] ELSE b.fill

NoWrapCall == [pc |-> "none", idx |-> 0, size |-> 0, k |-> 0, r |-> 0, rk |-> 0]

\* float r, g, b; of the callers: declared and not initialized
NoColor == <<Unwritten, Unwritten, Unwritten>>

NoColorCall == [pc |-> "none", colormap |-> 0, value |-> 0, rgb |-> NoColor]

NoRasterCall == [pc |-> "none", texW |-> 0, lines |-> 0, histIdx |-> << >>]

NoMapCall == [pc |-> "none", fft |-> 0, bars |-> 0, sr |-> 0, table |-> << >>]

NoLineCall == [pc |-> "none", fft |-> 0, table |-> << >>, even |-> 0, odd |-> 0,
               bin0 |-> << >>, line |-> << >>]

\* no call of a pure function is under study
NoCalls ==
    /\ wrapCall = NoWrapCall /\ colorCall = NoColorCall
    /\ rasterCall = NoRasterCall /\ mapCall = NoMapCall
    /\ lineCall = NoLineCall

\* the state main() sets up before its loop
Startup ==
    /\ wavFile = [audioData |-> << >>, sampleRate |-> 0, sourceChannels |-> 0]
    /\ playbackPosition = 0
    /\ isPaused = FALSE
    /\ isPlaying = FALSE
    /\ audioStream = NullStream
    /\ gOutputChannels = 1
    /\ gLatencySamplesBase = 0
    /\ loopAudio = TRUE
    /\ volume = VOLUME_FULL
    /\ isMuted = FALSE
    /\ volumeBeforeMute = VOLUME_FULL
    /\ rpc = "idle"
    /\ rlocal = NoLocals
    /\ cb = IdleCallback
    /\ out = << >>
    /\ cbRet = "none"
    /\ HISTORY_LINES = DEFAULT_HISTORY_LINES
    /\ saved3D_HISTORY_LINES = DEFAULT_HISTORY_LINES
    /\ lineWidth = 10 /\ yScale = 120 /\ yOffset = 0
    /\ showGrid = FALSE /\ autoRotate = FALSE
    /\ saved3D_lineWidth = 10 /\ saved3D_yScale = 120 /\ saved3D_yOffset = 0
    /\ saved3D_showGrid = TRUE /\ saved3D_autoRotate = FALSE
    /\ FFT_SIZE = DEFAULT_FFT_SIZE
    /\ saved3D_FFT_SIZE = DEFAULT_FFT_SIZE
    /\ useTraditionalView = FALSE
    /\ currentLine = [i \in 1..NUM_BARS |-> 0]
    /\ lineHistory = Compact([i \in 1..(MAX_HISTORY_LINES * NUM_BARS) |-> 0])
    /\ historyFillCount = 0
    /\ pushSeq = 0
    /\ depthSince = 0
    /\ fftInput = Malloc(FFT_SIZE)
    /\ fftOutput = FFT_SIZE \div 2 + 1
    /\ fftPlan = FFT_SIZE
    /\ magnitudes = [i \in 1..NumFrequencies(FFT_SIZE) |-> 0]
    /\ gBarBinF = [i \in 1..NUM_BARS |-> 0]
    /\ useCustomLineColor = TRUE
    /\ useColormap = FALSE
    /\ currentColormap = COLORMAP_INFERNO
    /\ saved3D_useCustomLineColor = TRUE
    /\ saved3D_useColormap = FALSE
    /\ saved3D_currentColormap = COLORMAP_VIRIDIS
    /\ colorLUTDirty = TRUE
    /\ colorLUT = [size |-> 0, colormap |-> COLORMAP_VIRIDIS]
    /\ textureData = << >>

Init == Startup /\ NoCalls

(* ------------------------------ wrapIndex ------------------------------ *)
\* a % b of C++ for b > 0: the quotient is truncated toward zero, so the
\* remainder has the sign of a
CRem(a, b) == IF a >= 0 THEN a % b ELSE -((-a) % b)

\* fault: the negative remainder is returned as it is
wrapIndex_NoFix(idx, size) == IF size = 0 THEN 0 ELSE CRem(idx, size)

\* wrapIndex(int64_t idx, size_t size)
wrapIndex(idx, size) ==
    IF size = 0 THEN 0
    ELSE LET m == CRem(idx, size)
         IN IF m < 0 THEN m + size ELSE m

\* the calls under study: wrapIndex(idx, size) and wrapIndex(idx + k, size)
WrapCalls ==
    {[NoWrapCall EXCEPT !.pc = "called", !.idx = i, !.size = n, !.k = j] :
        i \in (-MaxWrapIdx)..MaxWrapIdx, n \in 0..MaxWrapSize, j \in 0..MaxWrapSize}

WrapInit ==
    /\ Startup
    /\ wrapCall \in WrapCalls
    /\ colorCall = NoColorCall /\ rasterCall = NoRasterCall
    /\ mapCall = NoMapCall /\ lineCall = NoLineCall

WrapReturn ==
    /\ wrapCall.pc = "called"
    /\ wrapCall' = [wrapCall EXCEPT !.pc = "returned",
                                    !.r = wrapIndex(wrapCall.idx, wrapCall.size),
                                    !.rk = wrapIndex(wrapCall.idx + wrapCall.k,
                                                     wrapCall.size)]
    /\ UNCHANGED <<wavFile, transportVars, loopAudio, volumeVars, renderVars,
                   audioVars, configVars, historyVars, analyzerVars, colorVars>>
    /\ UNCHANGED <<viewVars, colorCall, rasterCall, mapCall, lineCall>>

(* ------------------------------ analyzer ------------------------------- *)
Analyzer ==
    [fftInput |-> fftInput, fftOutput |-> fftOutput, fftPlan |-> fftPlan,
     magnitudes |-> magnitudes, gBarBinF |-> gBarBinF]

SetAnalyzer(a) ==
    \E v \in {a} :
       /\ fftInput' = v.fftInput
       /\ fftOutput' = v.fftOutput
       /\ fftPlan' = v.fftPlan
       /\ magnitudes' = v.magnitudes
       /\ gBarBinF' = v.gBarBinF

RECURSIVE Pow(_, _)
Pow(b, e) == IF e = 0 THEN 1 ELSE b * Pow(b, e - 1)

\* the largest r in lo .. hi - 1 with r^k <= x, given lo^k <= x < hi^k
RECURSIVE RootIn(_, _, _, _)
RootIn(lo, hi, x, k) ==
    IF hi - lo <= 1 THEN lo
    ELSE LET mid == (lo + hi) \div 2
         IN IF Pow(mid, k) <= x THEN RootIn(mid, hi, x, k)
            ELSE RootIn(lo, mid, x, k)

\* fault: the bars run from maxF down to minF
BarFreq_Descending(i, bars, minF, maxF) ==
    IF bars = 1 THEN minF
    ELSE RootIn(minF, maxF + 1, Pow(minF, i) * Pow(maxF, bars - 1 - i), bars - 1)

\* minF * pow(maxF / minF, i / (bars - 1)), in whole Hz: the geometric
\* interpolation between minF and maxF
BarFreq(i, bars, minF, maxF) ==
    IF bars = 1 THEN minF
    ELSE RootIn(minF, maxF + 1, Pow(minF, bars - 1 - i) * Pow(maxF, i), bars - 1)

\* buildFrequencyMapping(): gBarBinF for transform size fft and sample rate sr
FreqTable(fft, bars, sr) ==
    LET minF == Max(MIN_FREQ, 1)
        maxF == Max((minF * 1001) \div 1000, sr \div 2)
        top == (NumFrequencies(fft) - 2) * BinTicks
    IN [b \in 1..bars |->
          LET binF == (BarFreq(b - 1, bars, minF, maxF) * fft * BinTicks) \div sr
          IN Max(BinTicks, Min(binF, top))]

\* what fftw_malloc and fftw_plan_dft_r2c_1d may answer
AllocOutcomes == {"ok", "mallocFails", "planFails"}

\* std::vector::resize(n, 0.0f)
Resize(v, n) == [i \in 1..n |-> IF i <= Len(v) THEN v[i] ELSE 0]

\* fault: the magnitudes are zeroed along with the resize
reinitializeFFT_ZeroesMagnitudes(a, fft, w, outcome) ==
    [a EXCEPT !.fftInput = IF outcome = "mallocFails" THEN NullBuffer
                           ELSE Malloc(fft),
              !.fftOutput = fft \div 2 + 1,
              !.fftPlan = IF outcome = "planFails" THEN 0 ELSE fft,
              !.magnitudes = [i \in 1..NumFrequencies(fft) |-> 0],
              !.gBarBinF = IF w.audioData # << >>
                             THEN FreqTable(fft, NUM_BARS, w.sampleRate) ELSE @]

\* reinitializeFFT() with FFT_SIZE = fft and sample source w.  Nothing checks
\* what the allocations answer; a plan made over a null buffer is still a plan.
reinitializeFFT(a, fft, w, outcome) ==
    [a EXCEPT !.fftInput = IF outcome = "mallocFails" THEN NullBuffer
                           ELSE Malloc(fft),
              !.fftOutput = fft \div 2 + 1,
              !.fftPlan = IF outcome = "planFails" THEN 0 ELSE fft,
              !.magnitudes = Resize(@, NumFrequencies(fft)),
              !.gBarBinF = IF w.audioData # << >>
                             THEN FreqTable(fft, NUM_BARS, w.sampleRate) ELSE @]

\* audioData[idx] * w, w the Hann coefficient 0.5 * (1 - cos(2 pi i / (F - 1)))
\* of window position i: kept as the pair of the sample and the position
Windowed(x, i) == <<x, i>>

\* 0.0, the padding of a short buffer
ZeroSample == <<0, 0>>

\* fault: the window starts at the latency-compensated position itself
PlayHeadEstimate_NotCentred(writeHead, latencySamples, fft) ==
    writeHead - latencySamples

\* playHeadEstimate = writeHead - latencySamples - fftWindowCenter
PlayHeadEstimate(writeHead, latencySamples, fft) ==
    writeHead - latencySamples - fft \div 2

\* fault: a short buffer is read circularly from the clock like a long one
AnalysisInput_AlwaysCircular(audio, playHead, fft) ==
    LET N == Len(audio)
        start == wrapIndex(playHead, N)
    IN [size |-> fft,
        data |-> [i \in 1..fft |->
                    Windowed(audio[((start + i - 1) % N) + 1], i - 1)],
        fill |-> ZeroSample]

\* fault: the window runs on past the end of the buffer
AnalysisSource_NoWrap(N, playHead, fft) ==
    LET start == wrapIndex(playHead, N)
    IN IF N < fft THEN [i \in 1..N |-> i - 1]
       ELSE [i \in 1..fft |-> start + i - 1]

\* processAudioFrameSynced(), lines 843-855: the index into audioData that
\* each window position reads, in the order of the reads
AnalysisSource(N, playHead, fft) ==
    LET start == wrapIndex(playHead, N)
    IN IF N < fft THEN [i \in 1..N |-> i - 1]
       ELSE [i \in 1..fft |-> (start + i - 1) % N]

\* processAudioFrameSynced(), lines 841-856: what the cycle puts in fftInput
AnalysisInput(audio, playHead, fft) ==
    LET src == AnalysisSource(Len(audio), playHead, fft)
    IN [size |-> fft,
        data |-> [i \in 1..Len(src) |-> Windowed(audio[src[i] + 1], i - 1)],
        fill |-> ZeroSample]

\* the magnitudes the transform of cycle f yields: they stand for
\* |X[i]| / FFT_SIZE, one value per cycle, never zero
Spectrum(f, n) == [i \in 1..n |-> f]

\* processAudioFrameSynced() as cycle f, clock value writeHead
processAudioFrameSynced(a, w, writeHead, latencyBase, fft, f) ==
    IF w.audioData = << >> THEN a
    ELSE [a EXCEPT !.fftInput =
                      AnalysisInput(w.audioData,
                                    PlayHeadEstimate(writeHead,
                                                     latencyBase + gLatencyAdjust,
                                                     fft),
                                    fft),
                   !.magnitudes = Spectrum(f, NumFrequencies(fft))]

\* a cycle that finds a null buffer or plan writes through nullptr and the
\* process dies: no step follows
AnalyzerUsable == fftInput.size # 0 /\ fftOutput # 0 /\ fftPlan # 0

(* ----------------------------- transport ------------------------------- *)
Transport ==
    [playbackPosition |-> playbackPosition, isPaused |-> isPaused,
     isPlaying |-> isPlaying, audioStream |-> audioStream,
     gOutputChannels |-> gOutputChannels,
     gLatencySamplesBase |-> gLatencySamplesBase]

SetTransport(t) ==
    \E v \in {t} :
       /\ playbackPosition' = v.playbackPosition
       /\ isPaused' = v.isPaused
       /\ isPlaying' = v.isPlaying
       /\ audioStream' = v.audioStream
       /\ gOutputChannels' = v.gOutputChannels
       /\ gLatencySamplesBase' = v.gLatencySamplesBase

\* What Pa_OpenDefaultStream / Pa_StartStream may answer, and the output
\* latency, in samples, the driver may report.
StreamOutcomes == {"ok", "openFails", "startFails"}
OutputLatencies == {2}

\* startAudio() applied to transport t with sample source w
startAudio(t, w, outcome, lat) ==
    IF w.audioData = << >> THEN t
    ELSE IF t.audioStream.open THEN t
    ELSE LET ch == IF w.sourceChannels >= 2 THEN 2 ELSE 1
             t1 == [t EXCEPT !.gOutputChannels = ch]
         IN CASE outcome = "openFails" -> t1
              [] outcome = "startFails" ->
                   [t1 EXCEPT !.audioStream =
                       [open |-> TRUE, active |-> FALSE, channels |-> ch]]
              [] OTHER ->
                   [t1 EXCEPT !.audioStream =
                                  [open |-> TRUE, active |-> TRUE, channels |-> ch],
                              !.isPlaying = TRUE,
                              !.isPaused = FALSE,
                              !.gLatencySamplesBase = lat + FRAMES_PER_BUFFER]

\* fault: a stopAudio() that leaves the stream open and running
stopAudio_StreamLeftOpen(t) ==
    [t EXCEPT !.isPlaying = FALSE,
              !.isPaused = FALSE,
              !.playbackPosition = 0]

\* fault: a stopAudio() that does not rewind the clock
stopAudio_KeepsPosition(t) ==
    [t EXCEPT !.audioStream = NullStream,
              !.isPlaying = FALSE,
              !.isPaused = FALSE]

\* stopAudio() applied to transport t
stopAudio(t) ==
    [t EXCEPT !.audioStream = NullStream,
              !.isPlaying = FALSE,
              !.isPaused = FALSE,
              !.playbackPosition = 0]

\* Pa_StopStream returns only once the callback in flight has returned, so a
\* handler that calls stopAudio() on an active stream waits for that.
StopStreamReturns == audioStream.active => cb.pc # "loop"

(* --------------------------- audio callback ---------------------------- *)
\* float s = sample * volume
Scale(sample, vol) == (sample * vol) \div VOLUME_FULL

\* audioCallback, lines 795-800: the loads at entry
CallbackEnter(n) ==
    /\ audioStream.active
    /\ cb.pc = "idle"
    /\ cb' = [pc |-> "loop",
              paused |-> isPaused,
              entry |-> playbackPosition,
              pos |-> playbackPosition,
              N |-> BufferLen,
              outCh |-> Max(1, gOutputChannels),
              frames |-> n,
              i |-> 0,
              src |-> << >>,
              gain |-> << >>,
              loopSeen |-> {}]
    /\ out' = [k \in 1..(n * audioStream.channels) |-> Unwritten]
    /\ UNCHANGED cbRet
    /\ UNCHANGED <<wavFile, transportVars, loopAudio, volumeVars, renderVars,
                   configVars, historyVars>>
    /\ UNCHANGED <<analyzerVars, colorVars, viewVars, callVars>>

\* the slots of frame i in the interleaved output buffer
FrameSlots(i, outCh) == {i * outCh + ch + 1 : ch \in 0..(outCh - 1)}

\* fault: only the first channel of the frame is written
WriteFrame_FirstChannelOnly(buf, i, outCh, s) ==
    [k \in DOMAIN buf |-> IF k = i * outCh + 1 THEN s ELSE buf[k]]

\* for (ch = 0; ch < outCh; ch++) out[i * outCh + ch] = s
WriteFrame(buf, i, outCh, s) ==
    [k \in DOMAIN buf |-> IF k \in FrameSlots(i, outCh) THEN s ELSE buf[k]]

\* wavFile.audioData[idx]; a read past the end of the vector is undefined and
\* may yield anything
ReadSample(idx) ==
    IF idx < BufferLen THEN {wavFile.audioData[idx + 1]} ELSE {0, Unwritten}

\* audioCallback, lines 807-820: the index one frame plays when the position
\* is q (-1: the frame is silent), and the position it leaves
FrameSource(q, N, loop) == IF q < N THEN q ELSE IF loop THEN 0 ELSE -1

\* fault: the wrap leaves the position on the sample it has just played
FramePos_WrapToZero(q, N, loop) == IF q < N THEN q + 1 ELSE IF loop THEN 0 ELSE q

FramePos(q, N, loop) == IF q < N THEN q + 1 ELSE IF loop THEN 1 ELSE q

\* audioCallback, lines 802-822: one iteration of the frame loop.  loopAudio
\* is read only by a frame that finds the position at the end of the buffer.
CallbackFrame ==
    /\ cb.pc = "loop"
    /\ cb.i < cb.frames
    /\ IF cb.paused \/ cb.N = 0
         THEN /\ out' = WriteFrame(out, cb.i, cb.outCh, 0)
              /\ cb' = [cb EXCEPT !.i = @ + 1, !.src = Append(@, -1),
                                  !.gain = Append(@, 0)]
         ELSE LET idx == FrameSource(cb.pos, cb.N, loopAudio)
              IN /\ IF idx = -1
                      THEN out' = WriteFrame(out, cb.i, cb.outCh, 0)
                      ELSE \E s \in ReadSample(idx) :
                             out' = WriteFrame(out, cb.i, cb.outCh, Scale(s, volume))
                 /\ cb' = [cb EXCEPT !.i = @ + 1,
                                     !.pos = FramePos(@, cb.N, loopAudio),
                                     !.src = Append(@, idx),
                                     !.gain = Append(@, IF idx = -1 THEN 0
                                                        ELSE volume),
                                     !.loopSeen = IF cb.pos < cb.N THEN @
                                                  ELSE @ \cup {loopAudio}]
    /\ UNCHANGED cbRet
    /\ UNCHANGED <<wavFile, transportVars, loopAudio, volumeVars, renderVars,
                   configVars, historyVars>>
    /\ UNCHANGED <<analyzerVars, colorVars, viewVars, callVars>>

\* the position n frames leave, starting from q
RECURSIVE AdvanceBy(_, _, _, _)
AdvanceBy(q, k, N, loop) ==
    IF k = 0 THEN q ELSE AdvanceBy(FramePos(q, N, loop), k - 1, N, loop)

\* audioCallback, lines 824-825: the store at exit
CallbackExit ==
    /\ cb.pc = "loop"
    /\ cb.i = cb.frames
    /\ playbackPosition' = cb.pos
    /\ cbRet' = "paContinue"
    /\ cb' = IdleCallback
    /\ out' = << >>
    /\ UNCHANGED <<isPaused, isPlaying, audioStream, gOutputChannels,
                   gLatencySamplesBase>>
    /\ UNCHANGED <<wavFile, loopAudio, volumeVars, renderVars,
                   configVars, historyVars>>
    /\ UNCHANGED <<analyzerVars, colorVars, viewVars, callVars>>


(* ------------------------- render context: keys ------------------------ *)
\* Every handler below runs in the main loop, one at a time (rpc = "idle"):
\* a step of the render context that leaves the audio context alone.
RenderStep(t) ==
    /\ SetTransport(t)
    /\ UNCHANGED audioVars

\* SPACE: toggle pause when playing, otherwise start playback
KeySpace(outcome, lat) ==
    /\ rpc = "idle"
    /\ RenderStep(IF isPlaying
                    THEN [Transport EXCEPT !.isPaused = ~isPaused]
                    ELSE IF wavFile.audioData # << >>
                    THEN startAudio(Transport, wavFile, outcome, lat)
                    ELSE Transport)
    /\ UNCHANGED <<wavFile, loopAudio, volumeVars, renderVars,
                   configVars, historyVars>>
    /\ UNCHANGED <<analyzerVars, colorVars, viewVars, callVars>>

\* R: restart playback
KeyR ==
    /\ rpc = "idle"
    /\ isPlaying
    /\ RenderStep([Transport EXCEPT !.playbackPosition = 0])
    /\ UNCHANGED <<wavFile, loopAudio, volumeVars, renderVars,
                   configVars, historyVars>>
    /\ UNCHANGED <<analyzerVars, colorVars, viewVars, callVars>>

\* M: toggle mute
KeyM ==
    /\ rpc = "idle"
    /\ IF ~isMuted
         THEN /\ volumeBeforeMute' = volume
              /\ volume' = 0
              /\ isMuted' = TRUE
         ELSE /\ volume' = volumeBeforeMute
              /\ isMuted' = FALSE
              /\ UNCHANGED volumeBeforeMute
    /\ UNCHANGED <<wavFile, transportVars, loopAudio, renderVars,
                   audioVars, configVars, historyVars>>
    /\ UNCHANGED <<analyzerVars, colorVars, viewVars, callVars>>

\* LEFT / RIGHT: the load of the clock that opens the handler
KeyArrowLoad(dir) ==
    /\ rpc = "idle"
    /\ wavFile.audioData # << >>
    /\ rpc' = dir
    /\ rlocal' = [rlocal EXCEPT !.currentPos = playbackPosition]
    /\ UNCHANGED <<wavFile, transportVars, loopAudio, volumeVars,
                   audioVars, configVars, historyVars>>
    /\ UNCHANGED <<analyzerVars, colorVars, viewVars, callVars>>

\* the position the arrow handlers compute from the clock value they loaded
SeekLeftPos(currentPos, sampleRate) ==
    Max(0, currentPos - sampleRate * SEEK_SECONDS)

\* fault: a forward seek without the clamp to the buffer length
SeekRightPos_Unclamped(currentPos, sampleRate, size) ==
    currentPos + sampleRate * SEEK_SECONDS

SeekRightPos(currentPos, sampleRate, size) ==
    Min(size, currentPos + sampleRate * SEEK_SECONDS)

\* LEFT / RIGHT: the store that closes the handler
KeyArrowStore ==
    /\ rpc \in {"seekLeft", "seekRight"}
    /\ LET newPos == IF rpc = "seekLeft"
                       THEN SeekLeftPos(rlocal.currentPos, wavFile.sampleRate)
                       ELSE SeekRightPos(rlocal.currentPos, wavFile.sampleRate,
                                         BufferLen)
       IN RenderStep([Transport EXCEPT !.playbackPosition = newPos])
    /\ rpc' = "idle"
    /\ rlocal' = NoLocals
    /\ UNCHANGED <<wavFile, loopAudio, volumeVars, configVars,
                   historyVars>>
    /\ UNCHANGED <<analyzerVars, colorVars, viewVars, callVars>>

\* (i + 1) * 0.1f, rounded to float, times 2^27
PercentNum(i) ==
    <<13421773, 26843546, 40265320, 53687092, 67108864,
      80530640, 93952408, 107374184, 120795960>>[i + 1]

\* (uint64_t)((double)size * (double)percent)
JumpPos(i, size) == (size * PercentNum(i)) \div PERCENT_DEN

\* 1-9: jump to 10%, ..., 90%
KeyNumber(i) ==
    /\ rpc = "idle"
    /\ wavFile.audioData # << >>
    /\ RenderStep([Transport EXCEPT !.playbackPosition = JumpPos(i, BufferLen)])
    /\ UNCHANGED <<wavFile, loopAudio, volumeVars, renderVars,
                   configVars, historyVars>>
    /\ UNCHANGED <<analyzerVars, colorVars, viewVars, callVars>>

(* ----------------------- render context: buttons ----------------------- *)
\* Play (shown while not playing)
PlayButton(outcome, lat) ==
    /\ rpc = "idle"
    /\ ~isPlaying
    /\ RenderStep(startAudio(Transport, wavFile, outcome, lat))
    /\ UNCHANGED <<wavFile, loopAudio, volumeVars, renderVars,
                   configVars, historyVars>>
    /\ UNCHANGED <<analyzerVars, colorVars, viewVars, callVars>>

\* Resume / Pause (shown while playing)
PauseResumeButton ==
    /\ rpc = "idle"
    /\ isPlaying
    /\ RenderStep([Transport EXCEPT !.isPaused = ~isPaused])
    /\ UNCHANGED <<wavFile, loopAudio, volumeVars, renderVars,
                   configVars, historyVars>>
    /\ UNCHANGED <<analyzerVars, colorVars, viewVars, callVars>>

\* Stop
StopButton ==
    /\ rpc = "idle"
    /\ StopStreamReturns
    /\ RenderStep(stopAudio(Transport))
    /\ UNCHANGED <<wavFile, loopAudio, volumeVars, renderVars,
                   configVars, historyVars>>
    /\ UNCHANGED <<analyzerVars, colorVars, viewVars, callVars>>

\* (uint64_t)((double)progress * (double)totalSamples), clamped to totalSamples
ScrubPos(t, totalSamples) ==
    LET newPos == (t * totalSamples) \div ScrubTicks
    IN IF newPos > totalSamples THEN totalSamples ELSE newPos

\* the progress slider, dragged to t / ScrubTicks
ProgressScrub(t) ==
    /\ rpc = "idle"
    /\ wavFile.audioData # << >>
    /\ RenderStep([Transport EXCEPT !.playbackPosition = ScrubPos(t, BufferLen)])
    /\ UNCHANGED <<wavFile, loopAudio, volumeVars, renderVars,
                   configVars, historyVars>>
    /\ UNCHANGED <<analyzerVars, colorVars, viewVars, callVars>>

\* Refresh Audio Device: the three loads that open the handler
RefreshLoad ==
    /\ rpc = "idle"
    /\ rpc' = "refreshing"
    /\ rlocal' = [rlocal EXCEPT !.wasPlaying = isPlaying,
                                !.wasPaused = isPaused,
                                !.currentPos = playbackPosition]
    /\ UNCHANGED <<wavFile, transportVars, loopAudio, volumeVars,
                   audioVars, configVars, historyVars>>
    /\ UNCHANGED <<analyzerVars, colorVars, viewVars, callVars>>

\* Refresh Audio Device: stopAudio() and the restart.  Once Pa_StartStream
\* has returned the new stream calls back, so the store of the paused flag
\* that follows startAudio() is a step of its own.
RefreshRestart(outcome, lat) ==
    /\ rpc = "refreshing"
    /\ StopStreamReturns
    /\ LET t0 == stopAudio(Transport)
           t1 == [t0 EXCEPT !.playbackPosition = rlocal.currentPos]
           t2 == startAudio(t1, wavFile, outcome, lat)
           restart == rlocal.wasPlaying /\ wavFile.audioData # << >>
       IN /\ RenderStep(IF restart THEN t2 ELSE t0)
          /\ IF restart /\ rlocal.wasPaused
               THEN rpc' = "restarted" /\ rlocal' = rlocal
               ELSE rpc' = "idle" /\ rlocal' = NoLocals
    /\ UNCHANGED <<wavFile, loopAudio, volumeVars, configVars,
                   historyVars>>
    /\ UNCHANGED <<analyzerVars, colorVars, viewVars, callVars>>

\* Refresh Audio Device: if (wasPaused) isPaused.store(true)
RefreshPause ==
    /\ rpc = "restarted"
    /\ isPaused' = TRUE
    /\ rpc' = "idle"
    /\ rlocal' = NoLocals
    /\ UNCHANGED <<playbackPosition, isPlaying, audioStream, gOutputChannels,
                   gLatencySamplesBase>>
    /\ UNCHANGED <<wavFile, loopAudio, volumeVars, audioVars, configVars,
                   historyVars>>
    /\ UNCHANGED <<analyzerVars, colorVars, viewVars, callVars>>

\* Restart
RestartButton(outcome, lat) ==
    /\ rpc = "idle"
    /\ LET t0 == [Transport EXCEPT !.playbackPosition = 0]
       IN RenderStep(IF wavFile.audioData # << >> /\ ~isPlaying
                       THEN startAudio(t0, wavFile, outcome, lat)
                       ELSE t0)
    /\ UNCHANGED <<wavFile, loopAudio, volumeVars, renderVars,
                   configVars, historyVars>>
    /\ UNCHANGED <<analyzerVars, colorVars, viewVars, callVars>>

\* Loop Audio checkbox
LoopCheckbox ==
    /\ rpc = "idle"
    /\ loopAudio' = ~loopAudio
    /\ UNCHANGED <<wavFile, transportVars, volumeVars, renderVars,
                   audioVars, configVars, historyVars>>
    /\ UNCHANGED <<analyzerVars, colorVars, viewVars, callVars>>


(* ------------------------ render context: loads ------------------------ *)
\* The three load sites call stopAudio() and then wavFile.load(path); the
\* handler is split between the two, so that whatever the audio context can
\* do while the load runs is a step of the model.
BeginLoad(path) ==
    /\ rpc = "idle"
    /\ StopStreamReturns
    /\ RenderStep(stopAudio(Transport))
    /\ rpc' = "loading"
    /\ rlocal' = [rlocal EXCEPT !.path = path]
    /\ UNCHANGED <<wavFile, loopAudio, volumeVars, configVars,
                   historyVars>>
    /\ UNCHANGED <<analyzerVars, colorVars, viewVars, callVars>>

\* a file dropped on the window
DropCallback(path) == BeginLoad(path)

\* Browse...: the dialog answers "" when it is cancelled
BrowseButton(path) ==
    IF path = ""
      THEN rpc = "idle" /\ UNCHANGED vars
      ELSE BeginLoad(path)

\* a click on an entry of Recent Files; the list is read from disk at startup
\* and may name any path
RecentFileSelect(path) == BeginLoad(path)

\* wavFile.load(path) and what the load sites do when it succeeds
LoadFinish ==
    /\ rpc = "loading"
    /\ LET load == WAVFileLoad(wavFile, rlocal.path)
       IN /\ wavFile' = load.wav
          /\ gBarBinF' = IF load.ok
                           THEN FreqTable(FFT_SIZE, NUM_BARS, load.wav.sampleRate)
                           ELSE gBarBinF
    /\ rpc' = "idle"
    /\ rlocal' = NoLocals
    /\ UNCHANGED <<transportVars, loopAudio, volumeVars, audioVars, configVars,
                   historyVars>>
    /\ UNCHANGED <<fftInput, fftOutput, fftPlan, magnitudes>>
    /\ UNCHANGED <<colorVars, viewVars, callVars>>

(* --------------------------- history ring ------------------------------ *)
\* the display line the analysis of cycle f yields: its values stand for the
\* normalized magnitudes, distinct per cycle and per bar, never the zero line
SpectrumLine(f) == [i \in 1..NUM_BARS |-> f * NUM_BARS + (i - 1)]

\* row k (from 0) of the vector
Row(h, k) == [i \in 1..NUM_BARS |-> At(h, k * NUM_BARS + i)]

\* fault: the memmove is one row short
pushLineToHistory_OneRowShort(h, line, depth) ==
    LET count == (depth - 2) * NUM_BARS
        top == Min(MAX_HISTORY_LINES * NUM_BARS,
                   Max(Len(h), NUM_BARS + Min(count, Len(h))))
    IN Compact([i \in 1..top |->
                  IF i <= NUM_BARS THEN line[i]
                  ELSE IF i <= NUM_BARS + count THEN At(h, i - NUM_BARS)
                  ELSE At(h, i)])

\* fault: the line is copied to row 1, over the row the memmove put there
pushLineToHistory_LineInRowOne(h, line, depth) ==
    LET count == (depth - 1) * NUM_BARS
        top == Min(MAX_HISTORY_LINES * NUM_BARS,
                   Max(Len(h), NUM_BARS + Max(NUM_BARS, Min(count, Len(h)))))
    IN Compact([i \in 1..top |->
                  IF i <= NUM_BARS THEN At(h, i)
                  ELSE IF i <= 2 * NUM_BARS THEN line[i - NUM_BARS]
                  ELSE IF i <= NUM_BARS + count THEN At(h, i - NUM_BARS)
                  ELSE At(h, i)])

\* pushLineToHistory(): memmove of (depth - 1) rows from row 0 to row 1, then
\* memcpy of the line to row 0.  Elements past `top` are zero before and after.
pushLineToHistory(h, line, depth) ==
    LET count == (depth - 1) * NUM_BARS
        top == Min(MAX_HISTORY_LINES * NUM_BARS,
                   Max(Len(h), NUM_BARS + Min(count, Len(h))))
    IN Compact([i \in 1..top |->
                  IF i <= NUM_BARS THEN line[i]
                  ELSE IF i <= NUM_BARS + count THEN At(h, i - NUM_BARS)
                  ELSE At(h, i)])

\* the saturating fill counter of pushLineToHistory()
pushFillCount(fill, depth) == IF fill < depth THEN fill + 1 ELSE fill

\* The analysis step of a main-loop iteration: processAudioFrameSynced(),
\* buildCurrentLine(), pushLineToHistory(), gated on the transport.
\* fault: the gate looks at isPlaying alone
AnalysisFrame_IgnoresPause ==
    /\ rpc = "idle"
    /\ isPlaying
    /\ pushSeq < MaxPushes
    /\ AnalyzerUsable
    /\ SetAnalyzer(processAudioFrameSynced(Analyzer, wavFile, playbackPosition,
                                           gLatencySamplesBase, FFT_SIZE,
                                           pushSeq + 1))
    /\ currentLine' = SpectrumLine(pushSeq + 1)
    /\ lineHistory' = pushLineToHistory(lineHistory, currentLine', HISTORY_LINES)
    /\ historyFillCount' = pushFillCount(historyFillCount, HISTORY_LINES)
    /\ pushSeq' = pushSeq + 1
    /\ UNCHANGED depthSince
    /\ UNCHANGED <<wavFile, transportVars, loopAudio, volumeVars, renderVars, audioVars, configVars>>
    /\ UNCHANGED <<colorVars, viewVars, callVars>>

AnalysisFrame ==
    /\ rpc = "idle"
    /\ ~isPaused /\ isPlaying
    /\ pushSeq < MaxPushes
    /\ AnalyzerUsable
    /\ SetAnalyzer(processAudioFrameSynced(Analyzer, wavFile, playbackPosition,
                                           gLatencySamplesBase, FFT_SIZE,
                                           pushSeq + 1))
    /\ currentLine' = SpectrumLine(pushSeq + 1)
    /\ lineHistory' = pushLineToHistory(lineHistory, currentLine', HISTORY_LINES)
    /\ historyFillCount' = pushFillCount(historyFillCount, HISTORY_LINES)
    /\ pushSeq' = pushSeq + 1
    /\ UNCHANGED depthSince
    /\ UNCHANGED <<wavFile, transportVars, loopAudio, volumeVars, renderVars, audioVars, configVars>>
    /\ UNCHANGED <<colorVars, viewVars, callVars>>

\* fault: only the rows of the logical depth are zeroed
FillZero_DepthOnly(h) ==
    Compact([i \in 1..Len(h) |-> IF i <= HISTORY_LINES * NUM_BARS THEN 0 ELSE h[i]])

\* std::fill(v.begin(), v.end(), 0.0f) on the whole vector
FillZero(h) == Compact([i \in 1..Len(h) |-> 0])

\* Clear Visualization
ClearVisualization ==
    /\ rpc = "idle"
    /\ StopStreamReturns
    /\ RenderStep(stopAudio(Transport))
    /\ lineHistory' = FillZero(lineHistory)
    /\ currentLine' = [i \in DOMAIN currentLine |-> 0]
    /\ magnitudes' = [i \in DOMAIN magnitudes |-> 0]
    /\ historyFillCount' = 0
    /\ depthSince' = pushSeq
    /\ UNCHANGED pushSeq
    /\ UNCHANGED <<wavFile, loopAudio, volumeVars, renderVars,
                   configVars>>
    /\ UNCHANGED <<fftInput, fftOutput, fftPlan, gBarBinF>>
    /\ UNCHANGED <<colorVars, viewVars, callVars>>

(* ------------------------- configuration ------------------------------- *)
\* fault: the typed depth is taken as it is
ClampLines_Unclamped(v) == v

\* (int)clampf((float)v, 10.0f, (float)MAX_HISTORY_LINES)
ClampLines(v) == Max(MIN_HISTORY_LINES, Min(MAX_HISTORY_LINES, v))

\* what the user may type into "Number of Lines"
LinesInputs ==
    {MIN_HISTORY_LINES - 1, MIN_HISTORY_LINES, MIN_HISTORY_LINES + 1,
     MAX_HISTORY_LINES, MAX_HISTORY_LINES + 1}

\* a depth change starts a new run of pushes at one depth
NoteDepth == depthSince' = IF HISTORY_LINES' # HISTORY_LINES THEN pushSeq
                           ELSE depthSince

\* fault: the input stays editable in the heat map
NumberOfLinesInput_Unlocked(v) ==
    /\ rpc = "idle"
    /\ v # HISTORY_LINES
    /\ HISTORY_LINES' = ClampLines(v)
    /\ saved3D_HISTORY_LINES' = HISTORY_LINES'
    /\ NoteDepth
    /\ UNCHANGED <<FFT_SIZE, saved3D_FFT_SIZE, useTraditionalView>>
    /\ UNCHANGED <<currentLine, lineHistory, historyFillCount, pushSeq>>
    /\ UNCHANGED <<wavFile, transportVars, loopAudio, volumeVars, renderVars, audioVars>>
    /\ UNCHANGED <<analyzerVars, colorVars, viewVars, callVars>>

\* Number of Lines (3D view only)
NumberOfLinesInput(v) ==
    /\ rpc = "idle"
    /\ ~useTraditionalView
    /\ v # HISTORY_LINES
    /\ HISTORY_LINES' = ClampLines(v)
    /\ saved3D_HISTORY_LINES' = HISTORY_LINES'
    /\ NoteDepth
    /\ UNCHANGED <<FFT_SIZE, saved3D_FFT_SIZE, useTraditionalView>>
    /\ UNCHANGED <<currentLine, lineHistory, historyFillCount, pushSeq>>
    /\ UNCHANGED <<wavFile, transportVars, loopAudio, volumeVars, renderVars, audioVars>>
    /\ UNCHANGED <<analyzerVars, colorVars, viewVars, callVars>>

\* 2D Heat Map checkbox (the full and the compact sidebar run the same
\* assignments on these variables)
HeatMapCheckbox(outcome) ==
    /\ rpc = "idle"
    /\ useTraditionalView' = ~useTraditionalView
    /\ IF useTraditionalView'
         THEN /\ saved3D_FFT_SIZE' = FFT_SIZE
              /\ saved3D_HISTORY_LINES' = HISTORY_LINES
              /\ saved3D_lineWidth' = lineWidth
              /\ saved3D_yScale' = yScale
              /\ saved3D_yOffset' = yOffset
              /\ saved3D_showGrid' = showGrid
              /\ saved3D_autoRotate' = autoRotate
              /\ FFT_SIZE' = LOCKED_FFT_SIZE
              /\ HISTORY_LINES' = LOCKED_HISTORY_LINES
              /\ lineWidth' = 10 /\ yScale' = 100 /\ yOffset' = 0
              /\ showGrid' = FALSE /\ autoRotate' = FALSE
              /\ saved3D_useCustomLineColor' = useCustomLineColor
              /\ saved3D_useColormap' = useColormap
              /\ saved3D_currentColormap' = currentColormap
              /\ useColormap' = TRUE
              /\ useCustomLineColor' = FALSE
              /\ UNCHANGED currentColormap
         ELSE /\ FFT_SIZE' = saved3D_FFT_SIZE
              /\ HISTORY_LINES' = saved3D_HISTORY_LINES
              /\ lineWidth' = saved3D_lineWidth
              /\ yScale' = saved3D_yScale
              /\ yOffset' = saved3D_yOffset
              /\ showGrid' = saved3D_showGrid
              /\ autoRotate' = saved3D_autoRotate
              /\ useCustomLineColor' = saved3D_useCustomLineColor
              /\ useColormap' = saved3D_useColormap
              /\ currentColormap' = saved3D_currentColormap
              /\ UNCHANGED <<saved3D_FFT_SIZE, saved3D_HISTORY_LINES,
                             saved3D_lineWidth, saved3D_yScale, saved3D_yOffset,
                             saved3D_showGrid, saved3D_autoRotate,
                             saved3D_useCustomLineColor, saved3D_useColormap,
                             saved3D_currentColormap>>
    /\ colorLUTDirty' = TRUE
    /\ SetAnalyzer(reinitializeFFT(Analyzer, FFT_SIZE', wavFile, outcome))
    /\ NoteDepth
    /\ UNCHANGED <<currentLine, lineHistory, historyFillCount, pushSeq>>
    /\ UNCHANGED <<wavFile, transportVars, loopAudio, volumeVars, renderVars, audioVars>>
    /\ UNCHANGED <<colorLUT, textureData, callVars>>

\* Reset All
ResetAll(outcome) ==
    /\ rpc = "idle"
    /\ IF useTraditionalView
         THEN /\ FFT_SIZE' = LOCKED_FFT_SIZE
              /\ HISTORY_LINES' = LOCKED_HISTORY_LINES
              /\ lineWidth' = 10 /\ yScale' = 100 /\ yOffset' = 0
              /\ showGrid' = FALSE /\ autoRotate' = FALSE
              /\ UNCHANGED <<saved3D_FFT_SIZE, saved3D_HISTORY_LINES,
                             saved3D_lineWidth, saved3D_yScale, saved3D_yOffset,
                             saved3D_showGrid, saved3D_autoRotate>>
         ELSE /\ FFT_SIZE' = DEFAULT_FFT_SIZE
              /\ HISTORY_LINES' = DEFAULT_HISTORY_LINES
              /\ lineWidth' = 10 /\ yScale' = 120 /\ yOffset' = 0
              /\ showGrid' = TRUE /\ autoRotate' = FALSE
              /\ saved3D_FFT_SIZE' = FFT_SIZE'
              /\ saved3D_HISTORY_LINES' = HISTORY_LINES'
              /\ saved3D_lineWidth' = lineWidth'
              /\ saved3D_yScale' = yScale'
              /\ saved3D_yOffset' = yOffset'
              /\ saved3D_showGrid' = showGrid'
              /\ saved3D_autoRotate' = autoRotate'
    /\ SetAnalyzer(reinitializeFFT(Analyzer, FFT_SIZE', wavFile, outcome))
    /\ currentColormap' = COLORMAP_RAINBOW
    /\ colorLUTDirty' = TRUE
    /\ NoteDepth
    /\ UNCHANGED useTraditionalView
    /\ UNCHANGED <<currentLine, lineHistory, historyFillCount, pushSeq>>
    /\ UNCHANGED <<wavFile, transportVars, loopAudio, volumeVars, renderVars, audioVars>>
    /\ UNCHANGED <<useCustomLineColor, useColormap, saved3D_useCustomLineColor,
                   saved3D_useColormap, saved3D_currentColormap, colorLUT,
                   textureData, callVars>>

\* fault: the last entry of the switch assigns a size that is not on offer
FFTSizeAt_OffTable(n) == FFT_UNIT * <<1, 2, 4, 8, 16, 48>>[n + 1]

\* the switch of the "FFT Size" combo: the size of entry n
FFTSizeAt(n) == FFT_UNIT * <<1, 2, 4, 8, 16, 32>>[n + 1]

\* the entry the combo shows as selected; entry 0 when FFT_SIZE is none of them
CurrentFFTIndex(fft) ==
    IF \E n \in 0..5 : FFTSizeAt(n) = fft
      THEN CHOOSE n \in 0..5 : FFTSizeAt(n) = fft
      ELSE 0

\* currentFFTIndex-- / currentFFTIndex++ with the wrap at either end
FFTIndexStep(index, step) ==
    LET n == index + step
    IN IF n < 0 THEN 5 ELSE IF n >= 6 THEN 0 ELSE n

\* what every control of the combo does once it has the new entry
SelectFFTSize(n, outcome) ==
    /\ rpc = "idle"
    /\ ~useTraditionalView
    /\ FFT_SIZE' = (IF n \in 0..5 THEN FFTSizeAt(n) ELSE FFT_SIZE)
    /\ SetAnalyzer(reinitializeFFT(Analyzer, FFT_SIZE', wavFile, outcome))
    /\ saved3D_FFT_SIZE' = FFT_SIZE'
    /\ UNCHANGED <<HISTORY_LINES, saved3D_HISTORY_LINES, useTraditionalView>>
    /\ UNCHANGED <<wavFile, transportVars, loopAudio, volumeVars, renderVars,
                   audioVars, historyVars, colorVars, viewVars, callVars>>

\* FFT Size (3D view only): Up / Down inside the open combo
FFTSizeKey(step, outcome) ==
    SelectFFTSize(FFTIndexStep(CurrentFFTIndex(FFT_SIZE), step), outcome)

\* FFT Size: a click on entry n, the selected one included
FFTSizeSelectable(n, outcome) == SelectFFTSize(n, outcome)

\* FFT Size: the mouse wheel over the combo; wheel > 0 steps up
FFTSizeWheel(wheel, outcome) ==
    SelectFFTSize(FFTIndexStep(CurrentFFTIndex(FFT_SIZE),
                               IF wheel > 0 THEN -1 ELSE 1), outcome)

(* ----------------------------- 3D settings ----------------------------- *)
\* clampf(v, lo, hi)
clampf(v, lo, hi) == IF v < lo THEN lo ELSE IF v > hi THEN hi ELSE v

\* fault: the checkbox of the heat map is bound to the setting as well
ShowGridCheckbox_Unlocked ==
    /\ rpc = "idle"
    /\ showGrid' = ~showGrid
    /\ saved3D_showGrid' = showGrid'
    /\ UNCHANGED <<lineWidth, yScale, yOffset, autoRotate, saved3D_lineWidth,
                   saved3D_yScale, saved3D_yOffset, saved3D_autoRotate>>
    /\ UNCHANGED <<wavFile, transportVars, loopAudio, volumeVars, renderVars,
                   audioVars, configVars, historyVars, analyzerVars, colorVars,
                   callVars>>

\* Show Grid checkbox (3D view only)
ShowGridCheckbox ==
    /\ rpc = "idle"
    /\ ~useTraditionalView
    /\ showGrid' = ~showGrid
    /\ saved3D_showGrid' = showGrid'
    /\ UNCHANGED <<lineWidth, yScale, yOffset, autoRotate, saved3D_lineWidth,
                   saved3D_yScale, saved3D_yOffset, saved3D_autoRotate>>
    /\ UNCHANGED <<wavFile, transportVars, loopAudio, volumeVars, renderVars,
                   audioVars, configVars, historyVars, analyzerVars, colorVars,
                   callVars>>

\* Auto-Rotate Camera checkbox (3D view only)
AutoRotateCheckbox ==
    /\ rpc = "idle"
    /\ ~useTraditionalView
    /\ autoRotate' = ~autoRotate
    /\ saved3D_autoRotate' = autoRotate'
    /\ UNCHANGED <<lineWidth, yScale, yOffset, showGrid, saved3D_lineWidth,
                   saved3D_yScale, saved3D_yOffset, saved3D_showGrid>>
    /\ UNCHANGED <<wavFile, transportVars, loopAudio, volumeVars, renderVars,
                   audioVars, configVars, historyVars, analyzerVars, colorVars,
                   callVars>>

\* Line Width input (3D view only): the typed value is clamped to 0.1 .. 10.0
LineWidthInput(v) ==
    /\ rpc = "idle"
    /\ ~useTraditionalView
    /\ v # lineWidth
    /\ lineWidth' = clampf(v, 1, 100)
    /\ saved3D_lineWidth' = lineWidth'
    /\ UNCHANGED <<yScale, yOffset, showGrid, autoRotate, saved3D_yScale,
                   saved3D_yOffset, saved3D_showGrid, saved3D_autoRotate>>
    /\ UNCHANGED <<wavFile, transportVars, loopAudio, volumeVars, renderVars,
                   audioVars, configVars, historyVars, analyzerVars, colorVars,
                   callVars>>

\* Y-Axis Height slider (3D view only): a drag to v inside 0.1 .. 5.0
YScaleSlider(v) ==
    /\ rpc = "idle"
    /\ ~useTraditionalView
    /\ v # yScale
    /\ yScale' = clampf(v, 10, 500)
    /\ saved3D_yScale' = yScale'
    /\ UNCHANGED <<lineWidth, yOffset, showGrid, autoRotate, saved3D_lineWidth,
                   saved3D_yOffset, saved3D_showGrid, saved3D_autoRotate>>
    /\ UNCHANGED <<wavFile, transportVars, loopAudio, volumeVars, renderVars,
                   audioVars, configVars, historyVars, analyzerVars, colorVars,
                   callVars>>

\* Y-Axis Offset slider (3D view only): a drag to v inside -3.0 .. 3.0
YOffsetSlider(v) ==
    /\ rpc = "idle"
    /\ ~useTraditionalView
    /\ v # yOffset
    /\ yOffset' = clampf(v, -300, 300)
    /\ saved3D_yOffset' = yOffset'
    /\ UNCHANGED <<lineWidth, yScale, showGrid, autoRotate, saved3D_lineWidth,
                   saved3D_yScale, saved3D_showGrid, saved3D_autoRotate>>
    /\ UNCHANGED <<wavFile, transportVars, loopAudio, volumeVars, renderVars,
                   audioVars, configVars, historyVars, analyzerVars, colorVars,
                   callVars>>

(* ------------------------------- volume -------------------------------- *)
\* The volume is kept in hundredths: 0.05 is 5, 1.0 is VOLUME_FULL.

\* fault: raising the volume leaves the mute flag set
KeyPlus_StaysMuted ==
    /\ rpc = "idle"
    /\ volume' = clampf(volume + 5, 0, VOLUME_FULL)
    /\ UNCHANGED <<isMuted, volumeBeforeMute>>
    /\ UNCHANGED <<wavFile, transportVars, loopAudio, renderVars,
                   audioVars, configVars, historyVars>>
    /\ UNCHANGED <<analyzerVars, colorVars, viewVars, callVars>>

\* + / = / keypad +: one step up, and a muted volume that rose is unmuted
KeyPlus ==
    /\ rpc = "idle"
    /\ volume' = clampf(volume + 5, 0, VOLUME_FULL)
    /\ isMuted' = IF isMuted /\ volume' > 0 THEN FALSE ELSE isMuted
    /\ UNCHANGED volumeBeforeMute
    /\ UNCHANGED <<wavFile, transportVars, loopAudio, renderVars,
                   audioVars, configVars, historyVars>>
    /\ UNCHANGED <<analyzerVars, colorVars, viewVars, callVars>>

\* - / keypad -: one step down; the mute flag is not touched
KeyMinus ==
    /\ rpc = "idle"
    /\ volume' = clampf(volume - 5, 0, VOLUME_FULL)
    /\ UNCHANGED <<isMuted, volumeBeforeMute>>
    /\ UNCHANGED <<wavFile, transportVars, loopAudio, renderVars,
                   audioVars, configVars, historyVars>>
    /\ UNCHANGED <<analyzerVars, colorVars, viewVars, callVars>>

\* The volume slider reporting a change to v (the slider of the full panel
\* and the vertical one of the compact panel run the same two statements; a
\* wheel notch over the full slider reports clampf(volume +/- 5, 0, 1)).
VolumeSlider(v) ==
    /\ rpc = "idle"
    /\ v \in 0..VOLUME_FULL
    /\ volume' = v
    /\ isMuted' = IF isMuted /\ volume' > 0 THEN FALSE ELSE isMuted
    /\ UNCHANGED volumeBeforeMute
    /\ UNCHANGED <<wavFile, transportVars, loopAudio, renderVars,
                   audioVars, configVars, historyVars>>
    /\ UNCHANGED <<analyzerVars, colorVars, viewVars, callVars>>

(* ------------------------------- colors -------------------------------- *)
\* fault: unticking the custom colour leaves no colouring mode on
CustomColorCheckbox_NoFallback ==
    /\ rpc = "idle"
    /\ useCustomLineColor' = ~useCustomLineColor
    /\ useColormap' = FALSE
    /\ UNCHANGED <<currentColormap, colorLUTDirty>>
    /\ UNCHANGED <<saved3D_useCustomLineColor, saved3D_useColormap,
                   saved3D_currentColormap, colorLUT, textureData>>
    /\ UNCHANGED <<wavFile, transportVars, loopAudio, volumeVars, renderVars,
                   audioVars, configVars, historyVars, analyzerVars, viewVars,
                   callVars>>

\* Use Custom Line Color checkbox
CustomColorCheckbox ==
    /\ rpc = "idle"
    /\ useCustomLineColor' = ~useCustomLineColor
    /\ IF useCustomLineColor'
         THEN /\ useColormap' = FALSE
              /\ UNCHANGED <<currentColormap, colorLUTDirty>>
         ELSE /\ useColormap' = TRUE
              /\ currentColormap' = COLORMAP_VIRIDIS
              /\ colorLUTDirty' = TRUE
    /\ UNCHANGED <<saved3D_useCustomLineColor, saved3D_useColormap,
                   saved3D_currentColormap, colorLUT, textureData>>
    /\ UNCHANGED <<wavFile, transportVars, loopAudio, volumeVars, renderVars,
                   audioVars, configVars, historyVars, analyzerVars, viewVars, callVars>>

\* Use Colormap checkbox
ColormapCheckbox ==
    /\ rpc = "idle"
    /\ useColormap' = ~useColormap
    /\ IF useColormap'
         THEN /\ useCustomLineColor' = FALSE
              /\ currentColormap' = COLORMAP_VIRIDIS
              /\ colorLUTDirty' = TRUE
         ELSE /\ useCustomLineColor' = TRUE
              /\ UNCHANGED <<currentColormap, colorLUTDirty>>
    /\ UNCHANGED <<saved3D_useCustomLineColor, saved3D_useColormap,
                   saved3D_currentColormap, colorLUT, textureData>>
    /\ UNCHANGED <<wavFile, transportVars, loopAudio, volumeVars, renderVars,
                   audioVars, configVars, historyVars, analyzerVars, viewVars, callVars>>

\* currentPresetIndex-- / currentPresetIndex++ with the wrap at either end
PresetIndexStep(index, step) ==
    LET n == index + step
    IN IF n < 0 THEN COLORMAP_COUNT - 1 ELSE IF n >= COLORMAP_COUNT THEN 0 ELSE n

\* fault: the selection changes and the table is not marked for a rebuild
SelectColormap_NotDirty(n) ==
    /\ rpc = "idle"
    /\ useColormap
    /\ currentColormap' = n
    /\ UNCHANGED <<useCustomLineColor, useColormap, saved3D_useCustomLineColor,
                   saved3D_useColormap, saved3D_currentColormap, colorLUT,
                   textureData, colorLUTDirty>>
    /\ UNCHANGED <<wavFile, transportVars, loopAudio, volumeVars, renderVars,
                   audioVars, configVars, historyVars, analyzerVars, viewVars, callVars>>

\* what every control of the Color Preset combo does once it has the entry
SelectColormap(n) ==
    /\ rpc = "idle"
    /\ useColormap
    /\ currentColormap' = n
    /\ colorLUTDirty' = TRUE
    /\ UNCHANGED <<useCustomLineColor, useColormap, saved3D_useCustomLineColor,
                   saved3D_useColormap, saved3D_currentColormap, colorLUT,
                   textureData>>
    /\ UNCHANGED <<wavFile, transportVars, loopAudio, volumeVars, renderVars,
                   audioVars, configVars, historyVars, analyzerVars, viewVars, callVars>>

\* Color Preset (shown while the colormap is in use): Up / Down in the open combo
ColormapKey(step) == SelectColormap(PresetIndexStep(currentColormap, step))

\* Color Preset: a click on entry n
ColormapSelectable(n) == SelectColormap(n)

\* Color Preset: the mouse wheel over the combo; wheel > 0 steps up
ColormapWheel(wheel) ==
    SelectColormap(PresetIndexStep(currentColormap, IF wheel > 0 THEN -1 ELSE 1))

\* Reset Colors
ResetColors ==
    /\ rpc = "idle"
    /\ currentColormap' = COLORMAP_VIRIDIS
    /\ colorLUTDirty' = TRUE
    /\ useCustomLineColor' = TRUE
    /\ useColormap' = FALSE
    /\ UNCHANGED <<saved3D_useCustomLineColor, saved3D_useColormap,
                   saved3D_currentColormap, colorLUT, textureData>>
    /\ UNCHANGED <<wavFile, transportVars, loopAudio, volumeVars, renderVars,
                   audioVars, configVars, historyVars, analyzerVars, viewVars, callVars>>

\* updateColorLUT(): the table after the call.  Every entry is computed from
\* the selected colormap alone (gamma and saturation boost are fixed), so the
\* table is kept as its size and the colormap it was computed from.
updateColorLUT(lut, dirty, colormap) ==
    IF ~dirty THEN lut ELSE [size |-> COLOR_LUT_SIZE, colormap |-> colormap]

\* colorLUT[idx]
LUTEntry(lut, idx) == <<lut.colormap, idx>>

\* (int)(v * (COLOR_LUT_SIZE - 1)), clamped: the line values of the model
\* count in steps of 1 / (COLOR_LUT_SIZE - 1)
LutIndex(v) == Max(0, Min(v, COLOR_LUT_SIZE - 1))

\* fault: the product is truncated, not rounded
HistIdx_Truncated(px, texW, H) ==
    LET r == IF texW <= 1 \/ H <= 1 THEN 0
             ELSE (px * (H - 1)) \div (texW - 1)
    IN Max(0, Min(r, H - 1))

\* the history row pixel column px shows: lround(t * (H - 1)), t = px / (texW - 1)
HistIdx(px, texW, H) ==
    LET r == IF texW <= 1 \/ H <= 1 THEN 0
             ELSE (2 * px * (H - 1) + (texW - 1)) \div (2 * (texW - 1))
    IN Max(0, Min(r, H - 1))

\* renderTraditionalSpectrogram(), lines 1282-1311: the table is brought up
\* to date, then the fill loop colors every pixel from it
renderTraditionalSpectrogram ==
    /\ rpc = "idle"
    /\ useTraditionalView
    /\ colorLUT' = updateColorLUT(colorLUT, colorLUTDirty, currentColormap)
    /\ colorLUTDirty' = FALSE
    /\ textureData' =
          [k \in 1..(NUM_BARS * TexW) |->
             LET i == (k - 1) \div TexW
                 px == (k - 1) % TexW
                 v == At(lineHistory,
                         HistIdx(px, TexW, HISTORY_LINES) * NUM_BARS + i + 1)
             IN LUTEntry(colorLUT', LutIndex(v))]
    /\ UNCHANGED <<useCustomLineColor, useColormap, currentColormap,
                   saved3D_useCustomLineColor, saved3D_useColormap,
                   saved3D_currentColormap>>
    /\ UNCHANGED <<wavFile, transportVars, loopAudio, volumeVars, renderVars,
                   audioVars, configVars, historyVars, analyzerVars, viewVars, callVars>>

(* ------------------------------ colormaps ------------------------------ *)
\* The control points of the sixteen colormaps, in the order of enum
\* ColormapType: <<position, r, g, b>>, each in 1 / COLOR_UNIT.
ColormapTables ==
    <<
      \* viridisMap
      << <<0, 267, 5, 329>>, <<250, 283, 141, 458>>, <<500, 128, 567, 551>>,
         <<750, 369, 788, 383>>, <<1000, 993, 906, 144>> >>,
      \* plasmaMap
      << <<0, 51, 29, 528>>, <<250, 507, 6, 658>>, <<500, 849, 203, 478>>,
         <<750, 966, 544, 235>>, <<1000, 940, 976, 131>> >>,
      \* infernoMap
      << <<0, 1, 0, 14>>, <<250, 258, 39, 407>>, <<500, 610, 157, 379>>,
         <<750, 941, 459, 153>>, <<1000, 988, 998, 645>> >>,
      \* magmaMap
      << <<0, 1, 0, 14>>, <<250, 282, 88, 472>>, <<500, 717, 215, 475>>,
         <<750, 989, 527, 384>>, <<1000, 987, 991, 750>> >>,
      \* hotMap
      << <<0, 0, 0, 0>>, <<375, 1000, 0, 0>>, <<750, 1000, 1000, 0>>,
         <<1000, 1000, 1000, 1000>> >>,
      \* coolMap
      << <<0, 0, 1000, 1000>>, <<500, 500, 500, 1000>>, <<1000, 1000, 0, 1000>> >>,
      \* jetMap
      << <<0, 0, 0, 500>>, <<125, 0, 0, 1000>>, <<375, 0, 1000, 1000>>,
         <<625, 1000, 1000, 0>>, <<875, 1000, 0, 0>>, <<1000, 500, 0, 0>> >>,
      \* turboMap
      << <<0, 190, 70, 230>>, <<130, 90, 440, 710>>, <<250, 110, 640, 850>>,
         <<380, 250, 830, 780>>, <<500, 520, 900, 520>>, <<630, 830, 890, 210>>,
         <<750, 990, 720, 150>>, <<880, 990, 380, 120>>, <<1000, 900, 150, 120>> >>,
      \* oceanMap
      << <<0, 0, 500, 0>>, <<500, 0, 500, 1000>>, <<1000, 1000, 1000, 1000>> >>,
      \* rainbowMap
      << <<0, 500, 0, 1000>>, <<160, 0, 0, 1000>>, <<330, 0, 1000, 1000>>,
         <<500, 0, 1000, 0>>, <<660, 1000, 1000, 0>>, <<830, 1000, 500, 0>>,
         <<1000, 1000, 0, 0>> >>,
      \* grayscaleMap
      << <<0, 0, 0, 0>>, <<1000, 1000, 1000, 1000>> >>,
      \* iceMap
      << <<0, 0, 0, 200>>, <<500, 0, 500, 1000>>, <<1000, 1000, 1000, 1000>> >>,
      \* fireMap
      << <<0, 0, 0, 0>>, <<330, 500, 0, 0>>, <<660, 1000, 500, 0>>,
         <<1000, 1000, 1000, 500>> >>,
      \* seismicMap
      << <<0, 0, 0, 300>>, <<250, 0, 0, 1000>>, <<500, 1000, 1000, 1000>>,
         <<750, 1000, 0, 0>>, <<1000, 500, 0, 0>> >>,
      \* twilightMap
      << <<0, 886, 859, 937>>, <<250, 329, 153, 533>>, <<500, 51, 39, 90>>,
         <<750, 345, 537, 686>>, <<1000, 886, 859, 937>> >>,
      \* cividisMap
      << <<0, 0, 135, 304>>, <<250, 184, 310, 424>>, <<500, 467, 479, 408>>,
         <<750, 796, 674, 424>>, <<1000, 992, 906, 574>> >>
    >>

\* the table each case of getCurrentColormapColor's switch passes
ColormapTable(c) == ColormapTables[c + 1]

\* fault: the jet table is passed with a count of 5
ColormapCount_JetShort(c) ==
    <<5, 5, 5, 5, 4, 3, 5, 9, 3, 7, 2, 3, 4, 5, 5, 5>>[c + 1]

\* the numPoints each case of the switch passes
ColormapCount(c) ==
    <<5, 5, 5, 5, 4, 3, 6, 9, 3, 7, 2, 3, 4, 5, 5, 5>>[c + 1]

\* what a read past the end of a table may yield
StrayPoints == {<<0, 0, 0, 0>>, <<COLOR_UNIT, COLOR_UNIT, COLOR_UNIT, COLOR_UNIT>>}

\* points[i], i from 0; past the end of the table the read is undefined
PointAt(points, i, stray) == IF i < Len(points) THEN points[i + 1] ELSE stray

clamp01(v) == Max(0, Min(COLOR_UNIT, v))

\* a + t * (b - a), t = num / den
Lerp(a, b, num, den) == a + (num * (b - a)) \div den

\* getColormapColor(points, numPoints, value, r, g, b): the r, g, b it leaves,
\* rgb being what they held before.  A value no segment holds leaves them as
\* they were.
getColormapColor(points, numPoints, value, rgb, stray) ==
    LET v == clamp01(value)
        first == PointAt(points, 0, stray)
        last == PointAt(points, numPoints - 1, stray)
        segs == {i \in 0..(numPoints - 2) :
                   /\ v >= PointAt(points, i, stray)[1]
                   /\ v <= PointAt(points, i + 1, stray)[1]}
    IN IF v <= first[1] THEN <<first[2], first[3], first[4]>>
       ELSE IF v >= last[1] THEN <<last[2], last[3], last[4]>>
       ELSE IF segs = {} THEN rgb
       ELSE LET i == CHOOSE j \in segs : \A k \in segs : j <= k
                p == PointAt(points, i, stray)
                q == PointAt(points, i + 1, stray)
            IN [ch \in 1..3 |->
                  Lerp(p[ch + 1], q[ch + 1], v - p[1], q[1] - p[1])]

\* getCurrentColormapColor(value, r, g, b) when currentColormap is c
getCurrentColormapColor(c, value, rgb, stray) ==
    IF c \in 0..(COLORMAP_COUNT - 1)
      THEN getColormapColor(ColormapTable(c), ColormapCount(c), value, rgb, stray)
      ELSE rgb

\* the calls under study: every colormap, every value from MaxOvershoot below
\* 0.0 to MaxOvershoot above 1.0
ColorCalls ==
    {[NoColorCall EXCEPT !.pc = "called", !.colormap = c, !.value = v] :
        c \in 0..(COLORMAP_COUNT - 1),
        v \in (-MaxOvershoot)..(COLOR_UNIT + MaxOvershoot)}

ColormapInit ==
    /\ Startup
    /\ colorCall \in ColorCalls
    /\ wrapCall = NoWrapCall /\ rasterCall = NoRasterCall
    /\ mapCall = NoMapCall /\ lineCall = NoLineCall

ColorReturn ==
    /\ colorCall.pc = "called"
    /\ \E stray \in StrayPoints :
          colorCall' = [colorCall EXCEPT
                           !.pc = "returned",
                           !.rgb = getCurrentColormapColor(colorCall.colormap,
                                                           colorCall.value,
                                                           colorCall.rgb, stray)]
    /\ UNCHANGED <<wavFile, transportVars, loopAudio, volumeVars, renderVars,
                   audioVars, configVars, historyVars, analyzerVars, colorVars>>
    /\ UNCHANGED <<viewVars, wrapCall, rasterCall, mapCall, lineCall>>

(* ------------------------------- raster -------------------------------- *)
\* the column loops under study: every texture width up to MaxRasterW, every
\* depth HISTORY_LINES can hold
RasterCalls ==
    {[NoRasterCall EXCEPT !.pc = "called", !.texW = w, !.lines = h] :
        w \in 1..MaxRasterW, h \in MIN_HISTORY_LINES..MAX_HISTORY_LINES}

RasterInit ==
    /\ Startup
    /\ rasterCall \in RasterCalls
    /\ wrapCall = NoWrapCall /\ colorCall = NoColorCall
    /\ mapCall = NoMapCall /\ lineCall = NoLineCall

\* renderTraditionalSpectrogram(), lines 1292-1296: histIdx of every column px
RasterReturn ==
    /\ rasterCall.pc = "called"
    /\ rasterCall' =
          [rasterCall EXCEPT
              !.pc = "returned",
              !.histIdx = [k \in 1..rasterCall.texW |->
                             HistIdx(k - 1, rasterCall.texW, rasterCall.lines)]]
    /\ UNCHANGED <<wavFile, transportVars, loopAudio, volumeVars, renderVars,
                   audioVars, configVars, historyVars, analyzerVars, colorVars>>
    /\ UNCHANGED <<viewVars, wrapCall, colorCall, mapCall, lineCall>>

(* --------------------------- frequency map ----------------------------- *)
\* the sample rates of the files that load
SampleRates == {SndFile(path).samplerate : path \in Paths \cup {"c.wav"}} \ {0}

\* the calls under study: every transform size on offer, 1 .. MaxMapBars
\* bars, every sample rate
MapCalls ==
    {[NoMapCall EXCEPT !.pc = "called", !.fft = FFTSizeAt(n), !.bars = b, !.sr = r] :
        n \in 0..5, b \in 1..MaxMapBars, r \in SampleRates}

MapInit ==
    /\ Startup
    /\ mapCall \in MapCalls
    /\ wrapCall = NoWrapCall /\ colorCall = NoColorCall
    /\ rasterCall = NoRasterCall /\ lineCall = NoLineCall

\* buildFrequencyMapping() with NUM_BARS = bars: gBarBinF as it leaves it
MapReturn ==
    /\ mapCall.pc = "called"
    /\ mapCall' = [mapCall EXCEPT
                     !.pc = "returned",
                     !.table = FreqTable(mapCall.fft, mapCall.bars, mapCall.sr)]
    /\ UNCHANGED <<wavFile, transportVars, loopAudio, volumeVars, renderVars,
                   audioVars, configVars, historyVars, analyzerVars, colorVars>>
    /\ UNCHANGED <<viewVars, wrapCall, colorCall, rasterCall, lineCall>>

(* ---------------------------- line builder ----------------------------- *)
\* the values a magnitude takes, in 1 / MagUnit: none, faint, 1.0, and 12.0,
\* which the logarithm carries past 1
MagLevels == {0, 1, MagUnit, 12 * MagUnit}

\* magnitudes of n bins: level `even` in the even bins, `odd` in the odd ones
Mags(n, even, odd) == [i \in 1..n |-> IF (i - 1) % 2 = 0 THEN even ELSE odd]

\* magnitudes[i], i from 0; past the end of the vector the read is undefined
MagAt(mags, i, stray) == IF i \in 0..(Len(mags) - 1) THEN mags[i + 1] ELSE stray

\* fault: the bin is used as the map gives it
LineBin0_Unclamped(binF, fft) == binF \div BinTicks

\* bin0 = floor(binF), clamped to [0, getNumFrequencies() - 2]
LineBin0(binF, fft) == Max(0, Min(NumFrequencies(fft) - 2, binF \div BinTicks))

\* frac = binF - floor(binF), in 1 / BinTicks
LineFrac(binF) == binF - (binF \div BinTicks) * BinTicks

\* log10(1 + m * MAG_GAIN) / logDen for m in 1 / MagUnit, in 1 / COLOR_UNIT,
\* to the half below: the largest k / 2 with (1 + MAG_GAIN)^(k / 2) <= 1 + m * MAG_GAIN
LogNorm(m) ==
    LET x == MagUnit + m * MAG_GAIN
        ks == {k \in 0..3 : MagUnit * MagUnit * Pow(1 + MAG_GAIN, k) <= x * x}
        k == CHOOSE j \in ks : \A l \in ks : l <= j
    IN (k * COLOR_UNIT) \div 2

\* buildCurrentLine(): bin0 and currentLine[i] of every bar
buildCurrentLine(table, mags, fft, stray) ==
    [bin0 |-> [i \in DOMAIN table |-> LineBin0(table[i], fft)],
     line |-> [i \in DOMAIN table |->
                 LET b0 == LineBin0(table[i], fft)
                     frac == LineFrac(table[i])
                     m == (MagAt(mags, b0, stray) * (BinTicks - frac)
                             + MagAt(mags, b0 + 1, stray) * frac) \div BinTicks
                 IN clamp01(LogNorm(m))]]

\* the calls under study: every transform size, a Frequency Map built for any
\* size and sample rate, every pair of magnitude levels
LineCalls ==
    {[NoLineCall EXCEPT !.pc = "called", !.fft = FFTSizeAt(n),
                        !.table = FreqTable(FFTSizeAt(k), NUM_BARS, r),
                        !.even = e, !.odd = o] :
        n \in 0..5, k \in 0..5, r \in SampleRates, e \in MagLevels, o \in MagLevels}

LineInit ==
    /\ Startup
    /\ lineCall \in LineCalls
    /\ wrapCall = NoWrapCall /\ colorCall = NoColorCall
    /\ rasterCall = NoRasterCall /\ mapCall = NoMapCall

LineReturn ==
    /\ lineCall.pc = "called"
    /\ \E stray \in MagLevels :
          LET built == buildCurrentLine(lineCall.table,
                                        Mags(NumFrequencies(lineCall.fft),
                                             lineCall.even, lineCall.odd),
                                        lineCall.fft, stray)
          IN lineCall' = [lineCall EXCEPT !.pc = "returned",
                                          !.bin0 = built.bin0,
                                          !.line = built.line]
    /\ UNCHANGED <<wavFile, transportVars, loopAudio, volumeVars, renderVars,
                   audioVars, configVars, historyVars, analyzerVars, colorVars>>
    /\ UNCHANGED <<viewVars, wrapCall, colorCall, rasterCall, mapCall>>

(* ------------------------------- claims -------------------------------- *)
\* the step on which the invocation in flight returns
CallbackReturns == cb.pc = "loop" /\ cb'.pc = "idle"

\* everything the callback reads besides the two atomics
CallbackReads == <<wavFile.audioData, gOutputChannels, loopAudio, volume>>

\* what the clock may hold once invocation c has returned, if it held p just
\* before: p plus any number of c's frames, under either loop setting
ClockAfter(p, c) ==
    IF c.paused \/ c.N = 0 THEN {p}
    ELSE {AdvanceBy(p, k, c.N, l) : k \in 0..c.frames, l \in BOOLEAN}

\* C1: a seek is never lost.  Whatever the render context last wrote to the
\* clock is what the clock holds when an audio callback returns, advanced by
\* no more than the frames that callback delivered (by none while paused).
C1_SeekNeverLost ==
    [][CallbackReturns => playbackPosition' \in ClockAfter(playbackPosition, cb)]_vars

\* C2: the clock and the paused flag are the only state both contexts touch.
\* While a callback invocation is in flight, no step of the render context
\* changes anything else that the callback reads.
C2_OnlyAtomicsShared ==
    [][(cb.pc = "loop" /\ cb' = cb) => CallbackReads' = CallbackReads]_vars

\* C3: no write of the sample buffer races a read by the callback.  While a
\* load runs the stream is closed and no invocation is in flight, and an
\* invocation is in flight only on a running stream.
C3_NoLoadRacesCallback ==
    /\ rpc = "loading" => (~audioStream.open /\ ~audioStream.active /\ cb.pc = "idle")
    /\ cb.pc = "loop" => (audioStream.active /\ rpc # "loading")

C3_LoadAfterPlayback ==
    rpc = "loading" /\ cbRet = "paContinue" /\ BufferLen > 0

\* the sample (scaled by the volume read for it) frame k of the invocation in
\* flight must carry when it plays index idx; -1 is silence
Emitted(k, idx) ==
    /\ cb.src[k + 1] = idx
    /\ \A slot \in FrameSlots(k, audioStream.channels) :
          out[slot] = IF idx = -1 THEN 0
                      ELSE Scale(wavFile.audioData[idx + 1], cb.gain[k + 1])

\* C4: a callback of n frames that finds the stream not paused, a buffer of
\* N > 0 samples and the position p in [0, N] writes one sample per frame, the
\* same to every channel.  With looping on it plays the indices (p + k) mod N
\* and leaves the clock congruent to p + n mod N; with looping off it plays
\* p .. min(p + n, N) - 1, then silence, and leaves the clock at min(p + n, N).
C4_CallbackAdvance ==
    [][(CallbackReturns /\ ~cb.paused /\ cb.N > 0 /\ cb.entry \in 0..cb.N) =>
          /\ Len(out) = cb.frames * audioStream.channels
          /\ cb.loopSeen \subseteq {TRUE} =>
                /\ \A k \in 0..(cb.frames - 1) : Emitted(k, (cb.entry + k) % cb.N)
                /\ playbackPosition' % cb.N = (cb.entry + cb.frames) % cb.N
          /\ cb.loopSeen \subseteq {FALSE} =>
                /\ \A k \in 0..(cb.frames - 1) :
                      Emitted(k, IF cb.entry + k < cb.N THEN cb.entry + k ELSE -1)
                /\ playbackPosition' = Min(cb.entry + cb.frames, cb.N)]_vars

C4_WrappedStereoCallback ==
    /\ cb.pc = "loop" /\ cb.i = cb.frames /\ cb.frames = MaxFrames
    /\ ~cb.paused /\ cb.loopSeen = {TRUE} /\ cb.outCh = 2 /\ volume = VOLUME_FULL

\* C5: a callback that finds the stream paused, or the buffer empty, writes
\* silence to every output sample and stores back the position it loaded;
\* every callback returns paContinue.
C5_PausedCallbackSilent ==
    [][CallbackReturns =>
          /\ cbRet' = "paContinue"
          /\ (cb.paused \/ cb.N = 0) =>
                /\ Len(out) = cb.frames * audioStream.channels
                /\ \A slot \in DOMAIN out : out[slot] = 0
                /\ playbackPosition' = cb.entry]_vars

C5_PausedStereoCallback ==
    /\ cb.pc = "loop" /\ cb.i = cb.frames /\ cb.frames = MaxFrames
    /\ cb.paused /\ cb.entry > 0 /\ cb.outCh = 2 /\ playbackPosition = cb.entry

\* C6: in every reachable state the clock lies in [0, N], N the length of the
\* sample buffer.
C6_ClockInRange == playbackPosition \in 0..BufferLen

C6_ClockAtEnd ==
    playbackPosition = BufferLen /\ BufferLen > 0 /\ isPlaying /\ cbRet = "paContinue"

\* C7: stopAudio() leaves the clock at 0, the paused flag cleared and
\* isPlaying false, and changes neither the history ring nor its fill counter;
\* once the stream is stopped no invocation is in flight to overwrite the 0.
C7_StopRewinds ==
    /\ [][(rpc = "idle" /\ audioStream.open /\ ~audioStream'.open) =>
             /\ playbackPosition' = 0
             /\ ~isPaused' /\ ~isPlaying'
             /\ lineHistory' = lineHistory
             /\ historyFillCount' = historyFillCount
             /\ cb'.pc = "idle"]_vars
    /\ [](~audioStream.active => cb.pc = "idle")

C7_StoppedAfterAnalysis ==
    /\ ~audioStream.open /\ rpc = "idle" /\ playbackPosition = 0
    /\ cbRet = "paContinue" /\ historyFillCount > 0

\* the step on which the analysis pushes a line
PushStep == pushSeq' = pushSeq + 1

\* C8: the shift law of the history ring.  A push puts the pushed line in row
\* 0 and the old row k in row k + 1, for every k in [0, H - 2]; one push on an
\* empty ring leaves a fill count of 1; after m pushes at one depth H the
\* rows 0 .. min(m, H) - 1 hold the newest lines, newest first, and a line
\* pushed more than H pushes ago is in none of the rows 0 .. H - 1.
C8_ShiftLaw ==
    /\ [][PushStep =>
             /\ currentLine' = SpectrumLine(pushSeq')
             /\ Row(lineHistory', 0) = currentLine'
             /\ \A k \in 0..(HISTORY_LINES - 2) :
                   Row(lineHistory', k + 1) = Row(lineHistory, k)
             /\ historyFillCount = 0 => historyFillCount' = 1]_vars
    /\ [](\A k \in 0..(Min(pushSeq - depthSince, HISTORY_LINES) - 1) :
             Row(lineHistory, k) = SpectrumLine(pushSeq - k))
    /\ [](\A j \in (depthSince + 1)..(pushSeq - HISTORY_LINES) :
             \A k \in 0..(HISTORY_LINES - 1) :
                Row(lineHistory, k) # SpectrumLine(j))

C8_OldestLineEvicted ==
    /\ HISTORY_LINES = MIN_HISTORY_LINES
    /\ pushSeq - depthSince = HISTORY_LINES + 1
    /\ Row(lineHistory, 0) = SpectrumLine(pushSeq)

\* C9: in every reachable state the fill counter is at most the ring depth:
\* historyFillCount <= HISTORY_LINES.
C9_FillWithinDepth == historyFillCount <= HISTORY_LINES

\* C10: the ring depth stays within [10, 560], so a push never writes past
\* the MAX_HISTORY_LINES rows the backing store was allocated with.
C10_DepthWithinStore ==
    /\ HISTORY_LINES \in MIN_HISTORY_LINES..MAX_HISTORY_LINES
    /\ HISTORY_LINES * NUM_BARS <= MAX_HISTORY_LINES * NUM_BARS
    /\ Len(lineHistory) <= MAX_HISTORY_LINES * NUM_BARS

C10_PushAtFullDepth ==
    /\ HISTORY_LINES = MAX_HISTORY_LINES /\ ~useTraditionalView
    /\ pushSeq > depthSince /\ historyFillCount > 0

\* C11: Clear Visualization zeroes every row of the backing store, all
\* MAX_HISTORY_LINES of them and not only the rows of the logical depth, and
\* sets the fill counter to 0.
C11_ClearZeroesStore ==
    [][ClearVisualization =>
          /\ \A i \in 1..(MAX_HISTORY_LINES * NUM_BARS) : At(lineHistory', i) = 0
          /\ historyFillCount' = 0]_vars

C11_ClearedAfterDepthCut ==
    /\ lineHistory = << >> /\ historyFillCount = 0
    /\ pushSeq = MaxPushes /\ depthSince = pushSeq
    /\ HISTORY_LINES = MIN_HISTORY_LINES /\ ~isPlaying

\* C12: for any signed index and any positive size, r = wrapIndex(idx, size)
\* satisfies 0 <= r < size and r = idx (mod size), and for k >= 0
\* wrapIndex(idx + k, size) = (r + k) mod size.
C12_WrapIndexLaw ==
    (wrapCall.pc = "returned" /\ wrapCall.size > 0) =>
        /\ wrapCall.r \in 0..(wrapCall.size - 1)
        /\ (wrapCall.r - wrapCall.idx) % wrapCall.size = 0
        /\ wrapCall.rk = (wrapCall.r + wrapCall.k) % wrapCall.size

C12_NegativeIndexWrapped ==
    /\ wrapCall.pc = "returned" /\ wrapCall.idx < 0 /\ wrapCall.r > 0
    /\ wrapCall.k > 0 /\ wrapCall.rk < wrapCall.r

\* C13: when the buffer holds N >= F samples, F the transform size, the
\* window a cycle reads is the F circularly consecutive samples starting at
\* wrap(P - La - F/2, N): P the clock, La the driver's output latency plus
\* FRAMES_PER_BUFFER plus the user's adjustment, as fixed when playback
\* started.
C13_WindowFollowsClock ==
    [][(PushStep /\ BufferLen >= FFT_SIZE) =>
          \E lat \in OutputLatencies :
             LET La == lat + FRAMES_PER_BUFFER + gLatencyAdjust
                 start == (playbackPosition - La - FFT_SIZE \div 2) % BufferLen
             IN /\ gLatencySamplesBase + gLatencyAdjust = La
                /\ fftInput'.size = FFT_SIZE
                /\ \A i \in 0..(FFT_SIZE - 1) :
                      BufAt(fftInput', i + 1) =
                         Windowed(wavFile.audioData[((start + i) % BufferLen) + 1], i)]_vars

C13_WindowWrapsAround ==
    /\ BufferLen > FFT_SIZE /\ pushSeq > 0 /\ magnitudes = Spectrum(pushSeq, NumFrequencies(FFT_SIZE))
    /\ fftInput.size = FFT_SIZE
    /\ \E i \in 1..(FFT_SIZE - 1) :
          /\ BufAt(fftInput, i) = Windowed(wavFile.audioData[BufferLen], i - 1)
          /\ BufAt(fftInput, i + 1) = Windowed(wavFile.audioData[1], i)

\* C14: on an empty buffer the cycle is a no-op and leaves the magnitudes as
\* they are.  On a buffer of 0 < N < F samples the transform input is the N
\* samples from index 0 on, windowed, followed by zeros in N .. F - 1,
\* whatever the clock holds.
C14_ShortBufferPadded ==
    /\ [](processAudioFrameSynced(Analyzer, [wavFile EXCEPT !.audioData = << >>],
                                  playbackPosition, gLatencySamplesBase,
                                  FFT_SIZE, pushSeq + 1) = Analyzer)
    /\ [][(PushStep /\ BufferLen > 0 /\ BufferLen < FFT_SIZE) =>
             /\ fftInput'.size = FFT_SIZE
             /\ \A i \in 0..(BufferLen - 1) :
                   BufAt(fftInput', i + 1) = Windowed(wavFile.audioData[i + 1], i)
             /\ \A i \in BufferLen..(FFT_SIZE - 1) :
                   BufAt(fftInput', i + 1) = ZeroSample]_vars

C14_PaddedAwayFromStart ==
    /\ pushSeq > 0 /\ playbackPosition > 0 /\ isPlaying
    /\ BufferLen > 0 /\ BufferLen < FFT_SIZE /\ fftInput.size = FFT_SIZE
    /\ BufAt(fftInput, BufferLen) =
          Windowed(wavFile.audioData[BufferLen], BufferLen - 1)
    /\ BufAt(fftInput, FFT_SIZE) = ZeroSample
    /\ magnitudes = Spectrum(pushSeq, NumFrequencies(FFT_SIZE))

\* the main loop is about to run a cycle
CycleStart == rpc = "idle" /\ isPlaying /\ ~isPaused

\* C15: no cycle observes a half-updated configuration.  At the start of
\* every cycle the plan and the input buffer are sized for the current
\* FFT_SIZE, the magnitudes have FFT_SIZE / 2 elements and the Frequency Map
\* is the table computed from the current FFT_SIZE, bar count and sample
\* rate, after any sequence of FFT-size selections, 2D/3D toggles, Reset All
\* and file loads, successful or failed.  (Allocations that succeed are
\* taken for granted here.)
C15_CycleSeesCurrentConfig ==
    (CycleStart /\ AnalyzerUsable) =>
        /\ fftPlan = FFT_SIZE
        /\ fftInput.size = FFT_SIZE
        /\ Len(magnitudes) = FFT_SIZE \div 2
        /\ gBarBinF = FreqTable(FFT_SIZE, NUM_BARS, wavFile.sampleRate)

\* the step on which wavFile.load() returns false
FailedLoad ==
    rpc = "loading" /\ rpc' = "idle" /\ ~WAVFileLoad(wavFile, rlocal.path).ok

\* C16: a failed load leaves the core state as it was: the sample buffer, the
\* sample rate, the source channel count and the Frequency Map are the same
\* as before the load.
C16_FailedLoadKeepsCore ==
    [][FailedLoad =>
          /\ wavFile'.audioData = wavFile.audioData
          /\ wavFile'.sampleRate = wavFile.sampleRate
          /\ wavFile'.sourceChannels = wavFile.sourceChannels
          /\ gBarBinF' = gBarBinF]_vars

\* C17: if an allocation fails while the transform is reconfigured, the
\* analyzer ends either fully new or fully rolled back: when
\* reinitializeFFT() has returned, the plan, the buffers, the magnitudes and
\* FFT_SIZE agree in size.
C17_ReconfigurationAtomic ==
    /\ fftPlan = FFT_SIZE
    /\ fftInput.size = FFT_SIZE
    /\ fftOutput = FFT_SIZE \div 2 + 1
    /\ Len(magnitudes) = FFT_SIZE \div 2

\* the Frequency Map is the one of the current sample rate, or was never built
MapCurrent ==
    \/ wavFile.audioData = << >>
    \/ gBarBinF = FreqTable(FFT_SIZE, NUM_BARS, wavFile.sampleRate)

C19_SizesOnOffer ==
    LET sizes == {FFT_UNIT * m : m \in {1, 2, 4, 8, 16, 32}}
    IN FFT_SIZE \in sizes /\ saved3D_FFT_SIZE \in sizes

C19_SmallestSavedUnderLock ==
    /\ useTraditionalView /\ FFT_SIZE = LOCKED_FFT_SIZE
    /\ saved3D_FFT_SIZE = FFT_UNIT /\ AnalyzerUsable

\* C20: the color table is never used stale.  Every change of the colormap
\* selection (combo click, keyboard and wheel steps, the two color
\* checkboxes, Reset Colors, Reset All, the restore of the 2D/3D toggle) sets
\* the dirty flag; at every raster fill the table is the one computed from
\* the colormap selected then; and the table is rebuilt only before the fill
\* loop, never during it: every pixel of one fill comes from one table.
C20_LUTNeverStale ==
    /\ [][currentColormap' # currentColormap => colorLUTDirty']_vars
    /\ [](~colorLUTDirty =>
             colorLUT = [size |-> COLOR_LUT_SIZE, colormap |-> currentColormap])
    /\ [][renderTraditionalSpectrogram =>
             /\ colorLUT' = [size |-> COLOR_LUT_SIZE, colormap |-> currentColormap]
             /\ \A k \in DOMAIN textureData' :
                   textureData'[k][1] = currentColormap]_vars
    /\ [][(colorLUT' # colorLUT \/ textureData' # textureData) =>
             renderTraditionalSpectrogram]_vars

C20_RefilledAfterReselection ==
    /\ useTraditionalView /\ ~colorLUTDirty
    /\ currentColormap = COLORMAP_COUNT - 1
    /\ saved3D_currentColormap = COLORMAP_INFERNO
    /\ colorLUT.colormap = currentColormap
    /\ Len(textureData) = NUM_BARS * TexW
    /\ \A k \in DOMAIN textureData : textureData[k] = LUTEntry(colorLUT, 0)

\* the RGB of control point p
PointColor(p) == <<p[2], p[3], p[4]>>

\* C21: for every colormap, color-at-value maps 0.0 to the first control
\* point's color and 1.0 to the last one's, and a value below 0 or above 1
\* yields the color of 0 or of 1: the count passed with each table is the
\* table's length, and its positions run from 0.0 to 1.0, increasing.
C21_ColormapEndpoints ==
    colorCall.pc = "returned" =>
        LET t == ColormapTable(colorCall.colormap)
        IN /\ ColormapCount(colorCall.colormap) = Len(t)
           /\ t[1][1] = 0 /\ t[Len(t)][1] = COLOR_UNIT
           /\ \A i \in 1..(Len(t) - 1) : t[i][1] < t[i + 1][1]
           /\ colorCall.value <= 0 => colorCall.rgb = PointColor(t[1])
           /\ colorCall.value >= COLOR_UNIT => colorCall.rgb = PointColor(t[Len(t)])

C21_JetAboveOne ==
    /\ colorCall.pc = "returned" /\ colorCall.colormap = COLORMAP_JET
    /\ colorCall.value > COLOR_UNIT
    /\ colorCall.rgb = <<COLOR_UNIT \div 2, 0, 0>>

C23_NewestOnRight ==
    (rasterCall.pc = "returned" /\ rasterCall.texW > 1) =>
        /\ rasterCall.histIdx[rasterCall.texW] = 0
        /\ rasterCall.histIdx[1] = rasterCall.lines - 1

\* the frequency ratio maxF / minF of buildFrequencyMapping exceeds 1
RatioAboveOne(sr) ==
    Max((Max(MIN_FREQ, 1) * 1001) \div 1000, sr \div 2) > Max(MIN_FREQ, 1)

\* the ends of the range bin positions are clamped to: 1 and nFreqBins - 2
ClampEnds(fft) == {BinTicks, (NumFrequencies(fft) - 2) * BinTicks}

\* C24 as amended: the Frequency Map has exactly bar-count entries; the bin
\* position of bar i + 1 is never smaller than that of bar i; and when the
\* frequency ratio exceeds 1 it is strictly larger unless both positions are
\* clamped to the same end of the range [1, FFT_SIZE / 2 - 2].
C24_MapMonotone ==
    mapCall.pc = "returned" =>
        /\ Len(mapCall.table) = mapCall.bars
        /\ \A i \in 1..(mapCall.bars - 1) :
              /\ mapCall.table[i] <= mapCall.table[i + 1]
              /\ (RatioAboveOne(mapCall.sr) /\ mapCall.table[i] = mapCall.table[i + 1])
                    => mapCall.table[i] \in ClampEnds(mapCall.fft)

C24_LowBarsShareABin ==
    /\ mapCall.pc = "returned" /\ mapCall.bars = MaxMapBars
    /\ RatioAboveOne(mapCall.sr)
    /\ mapCall.table[1] = BinTicks /\ mapCall.table[2] = BinTicks
    /\ mapCall.table[MaxMapBars] > BinTicks

\* C24 as stated: for bar counts >= 2 the bin position of bar i + 1 is never
\* smaller than that of bar i, and strictly larger whenever the frequency
\* ratio exceeds 1.
C24_StrictWheneverRatioAboveOne ==
    (mapCall.pc = "returned" /\ mapCall.bars >= 2) =>
        /\ Len(mapCall.table) = mapCall.bars
        /\ \A i \in 1..(mapCall.bars - 1) :
              /\ mapCall.table[i] <= mapCall.table[i + 1]
              /\ RatioAboveOne(mapCall.sr) => mapCall.table[i] < mapCall.table[i + 1]

\* C25: the line builder never reads outside the magnitudes and emits
\* normalized values.  For every bar 0 <= bin0 <= FFT_SIZE / 2 - 2 and
\* bin1 = bin0 + 1 <= FFT_SIZE / 2 - 1 when the line is built, also when the
\* Frequency Map was computed for another transform size, and every value of
\* the display line lies in [0, 1].
C25_LineWithinBounds ==
    lineCall.pc = "returned" =>
        /\ Len(lineCall.bin0) = NUM_BARS /\ Len(lineCall.line) = NUM_BARS
        /\ \A i \in 1..NUM_BARS :
              /\ lineCall.bin0[i] >= 0
              /\ lineCall.bin0[i] <= lineCall.fft \div 2 - 2
              /\ lineCall.bin0[i] + 1 <= lineCall.fft \div 2 - 1
              /\ lineCall.line[i] \in 0..COLOR_UNIT

C25_StaleMapLoudBins ==
    /\ lineCall.pc = "returned" /\ lineCall.fft = 2 * FFT_UNIT
    /\ lineCall.table[NUM_BARS] > lineCall.fft * BinTicks
    /\ lineCall.bin0[NUM_BARS] = lineCall.fft \div 2 - 2
    /\ lineCall.even = 12 * MagUnit /\ lineCall.odd = 1
    /\ lineCall.line[NUM_BARS] = COLOR_UNIT
    /\ lineCall.line[1] \in 1..(COLOR_UNIT - 1)

\* C26: while the 2D Heat Map view is active the configuration stays locked:
\* in every reachable state with useTraditionalView true, FFT_SIZE is 16384
\* and HISTORY_LINES is 560, whatever controls are used (Reset All included).
C26_HeatMapLocked ==
    useTraditionalView =>
        /\ FFT_SIZE = LOCKED_FFT_SIZE
        /\ HISTORY_LINES = LOCKED_HISTORY_LINES

\* Reset All was pressed inside the heat map, entered from a 3D view with
\* another size and another depth
C26_ResetAllInHeatMap ==
    /\ useTraditionalView
    /\ currentColormap = COLORMAP_RAINBOW
    /\ saved3D_currentColormap # COLORMAP_RAINBOW
    /\ saved3D_FFT_SIZE # LOCKED_FFT_SIZE
    /\ saved3D_HISTORY_LINES # LOCKED_HISTORY_LINES
    /\ FFT_SIZE = LOCKED_FFT_SIZE

\* the settings the heat map takes over, and where it keeps the 3D ones
Settings ==
    <<FFT_SIZE, HISTORY_LINES, lineWidth, yScale, yOffset, showGrid, autoRotate,
      useCustomLineColor, useColormap, currentColormap>>
Saved3D ==
    <<saved3D_FFT_SIZE, saved3D_HISTORY_LINES, saved3D_lineWidth, saved3D_yScale,
      saved3D_yOffset, saved3D_showGrid, saved3D_autoRotate,
      saved3D_useCustomLineColor, saved3D_useColormap, saved3D_currentColormap>>

\* C27: view-toggle round trip: switching from 3D to the 2D Heat Map and
\* back, with any other UI actions in between while in 2D, restores FFT_SIZE,
\* HISTORY_LINES, line width, Y scale, Y offset, grid, auto-rotate, both
\* colour flags and the colormap selection to their values just before
\* entering 2D.  The step into 2D stores each of them, no step inside 2D
\* touches the stored values, and the step out of 2D sets each setting to
\* its stored value.
C27_RoundTripRestores ==
    [][/\ (~useTraditionalView /\ useTraditionalView') => Saved3D' = Settings
       /\ (useTraditionalView /\ useTraditionalView') => Saved3D' = Saved3D
       /\ (useTraditionalView /\ ~useTraditionalView') => Settings' = Saved3D]_vars

\* back in 3D after a round trip (only the step into 2D writes the stored
\* colour selection, so the heat map was entered with Jet selected): every
\* setting stands at its stored value, none of them at its default
C27_BackFromHeatMap ==
    /\ ~useTraditionalView
    /\ Settings = Saved3D
    /\ FFT_SIZE # DEFAULT_FFT_SIZE /\ HISTORY_LINES # DEFAULT_HISTORY_LINES
    /\ lineWidth # 10 /\ yScale \notin {100, 120} /\ yOffset # 0
    /\ ~showGrid /\ autoRotate
    /\ useColormap /\ currentColormap = COLORMAP_JET

\* C28: exactly one coloring mode is active: in every reachable state exactly
\* one of useCustomLineColor and useColormap is true, after any sequence of
\* the two checkboxes, Reset Colors, Reset All and 2D/3D toggles.
C28_OneColoringMode == useCustomLineColor # useColormap

\* back in 3D with the colormap on, restored from the pair stored on the way
\* into the heat map, after Reset All
C28_ColormapRestored ==
    /\ ~useTraditionalView
    /\ useColormap /\ ~useCustomLineColor
    /\ saved3D_useColormap /\ ~saved3D_useCustomLineColor
    /\ currentColormap # COLORMAP_RAINBOW
    /\ saved3D_currentColormap = COLORMAP_RAINBOW

\* C29: the paused flag is only ever set while playing: in every reachable
\* state isPaused implies isPlaying, after any sequence of Space,
\* Play/Pause/Resume, Stop, Restart, Refresh Audio Device and file loads,
\* including when opening or starting the audio stream fails.
C29_PausedOnlyWhilePlaying == isPaused => isPlaying

\* C30: an audio stream exists exactly when the transport is playing: in
\* every reachable state audioStream is non-null if and only if isPlaying is
\* true, so that Play on a stopped transport with a buffer loaded attempts
\* to open and start a stream rather than returning early.
C30_StreamIffPlaying == audioStream.open <=> isPlaying

\* C31: every sample-buffer read made by the audio callback or the analyzer
\* uses an index in [0, N): for any clock value (N itself and values written
\* by seeks included), any latency, any FFT size and both loop settings, in
\* every reachable state with N > 0.  The callback's reads are those of the
\* invocation in flight (-1 marks a frame that reads nothing); the
\* analyzer's are those a cycle makes with the clock, latency and FFT size
\* of the state.
C31_ReadsInRange ==
    BufferLen > 0 =>
        /\ \A k \in DOMAIN cb.src :
              cb.src[k] = -1 \/ cb.src[k] \in 0..(BufferLen - 1)
        /\ LET src == AnalysisSource(BufferLen,
                                     PlayHeadEstimate(playbackPosition,
                                                      gLatencySamplesBase
                                                         + gLatencyAdjust,
                                                      FFT_SIZE),
                                     FFT_SIZE)
           IN \A i \in DOMAIN src : src[i] \in 0..(BufferLen - 1)

\* a callback that found the clock at N and wrapped to sample 0, while a
\* cycle has analysed a buffer at least as long as the window from a clock
\* that the latency puts before the start of the buffer
C31_WrappedReads ==
    /\ BufferLen >= FFT_SIZE /\ pushSeq > 0
    /\ cb.pc = "loop" /\ cb.entry = BufferLen
    /\ Len(cb.src) > 1 /\ cb.src[1] = 0 /\ cb.src[2] = 1
    /\ PlayHeadEstimate(playbackPosition, gLatencySamplesBase + gLatencyAdjust,
                        FFT_SIZE) < 0

\* C32: the waterfall advances only during active playback.  A render frame
\* runs the analyzer, the line builder and one push, in that order, if and
\* only if isPlaying is true and the paused flag is clear: between handlers
\* the analysis step can be taken exactly then, and the step that is taken
\* computes the magnitudes of this cycle, builds the line of this cycle and
\* pushes that line.  While the transport is paused or stopped there is no
\* analysis step, so a frame leaves the magnitudes, the current line, the
\* History Ring and the fill counter as they are.
C32_AdvanceOnlyWhilePlaying ==
    /\ []((rpc = "idle" /\ pushSeq < MaxPushes /\ AnalyzerUsable) =>
             ((ENABLED AnalysisFrame) <=> (isPlaying /\ ~isPaused)))
    /\ [][PushStep =>
             /\ isPlaying /\ ~isPaused
             /\ magnitudes' = Spectrum(pushSeq', NumFrequencies(FFT_SIZE))
             /\ currentLine' = SpectrumLine(pushSeq')
             /\ Row(lineHistory', 0) = currentLine'
             /\ historyFillCount' = IF historyFillCount < HISTORY_LINES
                                      THEN historyFillCount + 1
                                      ELSE historyFillCount]_vars

\* paused after three frames were analysed: three lines in the ring, the
\* newest from the third cycle, and the transport still playing
C32_PausedAfterThreeFrames ==
    /\ rpc = "idle" /\ isPlaying /\ isPaused
    /\ pushSeq = 3 /\ historyFillCount = 3
    /\ currentLine = SpectrumLine(3)
    /\ Row(lineHistory, 0) = SpectrumLine(3)
    /\ Row(lineHistory, 2) = SpectrumLine(1)

\* the cycle whose line row k of the backing store holds; 0 for a row that
\* holds no pushed line
PushedIn(k) == Row(lineHistory, k)[1] \div NUM_BARS

\* the rows of the backing store up to the last one that is not all zero
\* (the variable holds the vector without its trailing zeros)
StoredRows == (Len(lineHistory) + NUM_BARS - 1) \div NUM_BARS

\* C33: history rows stay in age order across depth changes.  In every
\* reachable state, for any two rows j < k of the backing store that hold
\* pushed lines, the line in row j was pushed no earlier than the line in
\* row k, and every row at index >= the fill counter is all zero, after any
\* sequence of pushes, depth increases and decreases, and resets.  The rows
\* from StoredRows on are all zero and hold no line, so the rows below it
\* are the ones to compare.
C33_RowsInAgeOrder ==
    /\ StoredRows <= MAX_HISTORY_LINES
    /\ \A k \in 0..(StoredRows - 1) :
          PushedIn(k) # 0 =>
             /\ Row(lineHistory, k) = SpectrumLine(PushedIn(k))
             /\ \A j \in 0..(k - 1) :
                   PushedIn(j) # 0 => PushedIn(j) >= PushedIn(k)
    /\ \A k \in historyFillCount..(StoredRows - 1) :
          \A i \in 1..NUM_BARS : Row(lineHistory, k)[i] = 0

\* eleven pushes at depth 11, the depth cut to 10, one more push: row 10 is
\* outside the ring and still holds the first line, older than row 9
C33_StaleRowBelowRing ==
    /\ HISTORY_LINES = MIN_HISTORY_LINES /\ historyFillCount = HISTORY_LINES + 1
    /\ PushedIn(0) = pushSeq /\ pushSeq > depthSince
    /\ PushedIn(HISTORY_LINES) = 1
    /\ PushedIn(HISTORY_LINES - 1) = 3

\* the step on which the Refresh Audio Device handler returns
RefreshCompletes == rpc \in {"refreshing", "restarted"} /\ rpc' = "idle"

\* C34: Refresh Audio Device preserves the transport.  When invoked while
\* playing, after it completes the playback position equals the position
\* read before the stream was torn down, the transport is playing again, and
\* the paused flag has the value it had before the refresh.  (Stated for the
\* refreshes whose new stream opens and starts.)
C34_RefreshPreservesTransport ==
    [][(RefreshCompletes /\ rlocal.wasPlaying /\ audioStream'.active) =>
          /\ playbackPosition' = rlocal.currentPos
          /\ isPlaying'
          /\ isPaused' = rlocal.wasPaused]_vars

\* C35: Muted means silent.  In every reachable state isMuted implies
\* volume = 0, and unmuting with M restores the volume that was in effect
\* when mute was engaged, after any sequence of M, volume up / down keys and
\* volume slider changes: the step that engages mute stores the volume of
\* that moment, no step taken while muted changes what is stored, and the M
\* step that leaves mute makes the stored value the volume.
C35_MutedMeansSilent ==
    /\ [](isMuted => volume = 0)
    /\ [][(~isMuted /\ isMuted') => volumeBeforeMute' = volume]_vars
    /\ [][isMuted => volumeBeforeMute' = volumeBeforeMute]_vars
    /\ [][(isMuted /\ KeyM) => (~isMuted' /\ volume' = volumeBeforeMute)]_vars

\* mute engaged at 0.32, a volume set with the slider (0.37) and lowered
\* one step: the output is silent and 0.32 is what M will bring back
C35_MutedBelowSliderValue ==
    /\ isMuted /\ volume = 0
    /\ volumeBeforeMute = 32

(* --------------------------- specifications ---------------------------- *)
\* The transport: both contexts, every handler that touches the clock, the
\* stream or the sample buffer, and the analysis step that reads the clock.
Next ==
    \/ \E outcome \in StreamOutcomes, lat \in OutputLatencies :
          \/ KeySpace(outcome, lat)
          \/ PlayButton(outcome, lat)
          \/ RestartButton(outcome, lat)
          \/ RefreshRestart(outcome, lat)
    \/ KeyR
    \/ KeyM
    \/ \E dir \in {"seekLeft", "seekRight"} : KeyArrowLoad(dir)
    \/ KeyArrowStore
    \/ \E i \in 0..8 : KeyNumber(i)
    \/ PauseResumeButton
    \/ StopButton
    \/ \E t \in 0..ScrubTicks : ProgressScrub(t)
    \/ RefreshLoad
    \/ RefreshPause
    \/ LoopCheckbox
    \/ \E path \in {"a.wav", "b.flac"} : DropCallback(path)
    \/ \E path \in {"b.flac", "missing.wav", ""} : BrowseButton(path)
    \/ \E path \in Paths : RecentFileSelect(path)
    \/ LoadFinish
    \/ \E n \in 1..MaxFrames : CallbackEnter(n)
    \/ CallbackFrame
    \/ CallbackExit
    \/ (pushSeq < MaxTransportFrames /\ AnalysisFrame)

Spec == Init /\ [][Next]_vars

\* The history ring: the render context alone, with the transport controls
\* that gate the analysis step and the controls that change the depth.
HistoryNext ==
    \/ \E path \in {"a.wav"} : DropCallback(path)
    \/ LoadFinish
    \/ \E outcome \in StreamOutcomes, lat \in OutputLatencies :
          PlayButton(outcome, lat)
    \/ PauseResumeButton
    \/ StopButton
    \/ AnalysisFrame
    \/ ClearVisualization
    \/ \E v \in LinesInputs : NumberOfLinesInput(v)
    \/ \E outcome \in {"ok"} : HeatMapCheckbox(outcome)
    \/ \E outcome \in {"ok"} : ResetAll(outcome)

SpecHistory == Init /\ [][HistoryNext]_vars

\* The analyzer: the loads, the transport controls that gate a cycle and move
\* the clock, the cycle, and every control that reconfigures the transform.
AnalyzerNext ==
    \/ \E path \in {"c.wav"} : DropCallback(path)
    \/ \E path \in {"empty.wav", "missing.wav"} : RecentFileSelect(path)
    \/ LoadFinish
    \/ \E outcome \in {"ok"}, lat \in OutputLatencies : PlayButton(outcome, lat)
    \/ \E t \in {0, ScrubTicks - 1, ScrubTicks} : ProgressScrub(t)
    \/ (pushSeq < MaxAnalyzerCycles /\ AnalysisFrame)
    \/ \E outcome \in AllocOutcomes, n \in 0..5 : FFTSizeSelectable(n, outcome)
    \/ \E outcome \in {"ok"} :
          \/ \E step \in {-1, 1} : FFTSizeKey(step, outcome)
          \/ \E wheel \in {-1, 1} : FFTSizeWheel(wheel, outcome)
          \/ HeatMapCheckbox(outcome)
          \/ ResetAll(outcome)

SpecAnalyzer == Init /\ [][AnalyzerNext]_vars

\* The colors: every control that selects a colormap, and the heat-map
\* raster fill.
ColorNext ==
    \/ CustomColorCheckbox
    \/ ColormapCheckbox
    \/ \E step \in {-1, 1} : ColormapKey(step)
    \/ \E n \in 0..(COLORMAP_COUNT - 1) : ColormapSelectable(n)
    \/ \E wheel \in {-1, 1} : ColormapWheel(wheel)
    \/ ResetColors
    \/ \E outcome \in {"ok"} : HeatMapCheckbox(outcome)
    \/ \E outcome \in {"ok"} : ResetAll(outcome)
    \/ renderTraditionalSpectrogram

SpecColor == Init /\ [][ColorNext]_vars

\* The settings: every control of the sidebar that writes a setting the heat
\* map locks or saves, with no file loaded.
ViewNext ==
    \/ \E outcome \in {"ok"} :
          \/ HeatMapCheckbox(outcome)
          \/ ResetAll(outcome)
          \/ \E n \in {0, 5} : FFTSizeSelectable(n, outcome)
    \/ \E v \in {MIN_HISTORY_LINES - 1, MAX_HISTORY_LINES + 1} : NumberOfLinesInput(v)
    \/ ShowGridCheckbox
    \/ AutoRotateCheckbox
    \/ \E v \in {0, 25} : LineWidthInput(v)
    \/ \E v \in {10, 300} : YScaleSlider(v)
    \/ \E v \in {-300, 150} : YOffsetSlider(v)
    \/ CustomColorCheckbox
    \/ ColormapCheckbox
    \/ ColormapSelectable(COLORMAP_JET)
    \/ ResetColors

SpecView == Init /\ [][ViewNext]_vars

\* The sample reads: a buffer longer than the smallest transform and a
\* shorter one, playback, every seek, the loop setting, the callback and
\* the cycle, under the two smallest transform sizes.
ReadsNext ==
    \/ \E path \in {"a.wav", "c.wav"} : DropCallback(path)
    \/ LoadFinish
    \/ \E lat \in {0, 2, 2 * FFT_UNIT} : PlayButton("ok", lat)
    \/ \E t \in {0, 1, ScrubTicks} : ProgressScrub(t)
    \/ \E i \in {8} : KeyNumber(i)
    \/ \E dir \in {"seekLeft", "seekRight"} : KeyArrowLoad(dir)
    \/ KeyArrowStore
    \/ LoopCheckbox
    \/ \E n \in 1..MaxFrames : CallbackEnter(n)
    \/ CallbackFrame
    \/ CallbackExit
    \/ \E n \in {0, 1} : FFTSizeSelectable(n, "ok")
    \/ (pushSeq < MaxAnalyzerCycles /\ AnalysisFrame)

SpecReads == Init /\ [][ReadsNext]_vars

\* The volume controls on their own: M, the two volume keys, the slider
\* dragged to a value and the wheel turned one notch over it.
SpecVolume ==
    Init /\ [][\/ KeyM
               \/ KeyPlus
               \/ KeyMinus
               \/ \E v \in {0, 37, VOLUME_FULL} : VolumeSlider(v)
               \/ \E wheel \in {-1, 1} :
                     VolumeSlider(clampf(volume + wheel * 5, 0, VOLUME_FULL))]_vars

\* wrapIndex on its own: every call in WrapCalls, and its return
WrapNext == WrapReturn

SpecWrap == WrapInit /\ [][WrapNext]_vars

\* getCurrentColormapColor on its own: every call in ColorCalls, and its return
ColormapNext == ColorReturn

SpecColormap == ColormapInit /\ [][ColormapNext]_vars

\* the raster's column loop on its own: every loop in RasterCalls
RasterNext == RasterReturn

SpecRaster == RasterInit /\ [][RasterNext]_vars

\* buildFrequencyMapping on its own: every call in MapCalls
MapNext == MapReturn

SpecMap == MapInit /\ [][MapNext]_vars

\* buildCurrentLine on its own: every call in LineCalls
LineNext == LineReturn

SpecLine == LineInit /\ [][LineNext]_vars

====
